---- MODULE Spec2Model ----
(***************************************************************************)
(* codemapper daemon: scan orchestration (MapperEngine.run_scan), the      *)
(* durable store (Store), the control commands that start scans            *)
(* (Daemon._process_command) and the scheduler triggers.                   *)
(*                                                                         *)
(* The daemon is one asyncio event loop: a coroutine runs without          *)
(* interruption from one await to the next.  Every action below is one     *)
(* such segment: the effect of the awaited call the task was suspended in, *)
(* followed by the synchronous code up to the next await.                  *)
(***************************************************************************)
EXTENDS Integers, Sequences, FiniteSets, TLC

VARIABLES
    codebases,      \* Store: codebases table, the set of its rows
    seq,            \* Store: the last id AUTOINCREMENT gave to a codebases row
    daemon,         \* Daemon: _running, pending _shutdown tasks, the loop has exited,
                    \* scan/remove/stop requests read so far, the scans that were
                    \* in flight when stop was requested
    triggers,       \* Scheduler: trigger id "scan_<name>" (keyed by name) -> closure
    jobs,           \* Store: jobs table, job id -> row
    logs,           \* Store: logs table, job id -> rows in insertion order
    running_scans,  \* MapperEngine._running_scans
    tasks,          \* run_scan coroutines, in creation order
    conns,          \* handlers suspended in a store call, in dispatch order
    src,            \* source trees on disk, root -> directory entries in rglob order
    cacheFile,      \* <root>/mapper.lock, root -> persisted cache map
    maps,           \* <root>/maps, root -> (entry index -> artifact)
    response,       \* the response being written on the current connection
    wq,             \* a WorkQueue, the workers of its process call and their handlers
    hc,             \* a HashCache object outside any scan: its map, or that its
                    \* construction raised
    call            \* the last call made on the Scheduler, the HashCache or the
                    \* WorkQueue, with its arguments and what it returned

\* the objects no command or scan of the daemon touches
lib == <<wq, hc, call>>

vars == <<codebases, seq, daemon, triggers, jobs, logs, running_scans, tasks,
          conns, src, cacheFile, maps, response, wq, hc, call>>

-----------------------------------------------------------------------------
(* Bounds *)

MaxTasks == 2       \* run_scan coroutines created in one behaviour of Spec
MaxFaultTasks == 2  \* run_scan coroutines created in one behaviour of SpecFault
MaxFiles == 2       \* directory entries under a root (SpecScan)
MaxSyms  == 2       \* symbols in one source file (SpecScan)
MaxCmds == 2        \* scan, remove and stop requests in one behaviour of SpecCmd
MaxCmdTasks == 1    \* run_scan coroutines created in one behaviour of SpecCmd
MaxQueryCmds == 1   \* scan, remove and stop requests in one behaviour of SpecQuery
MaxAdds == 3        \* WorkQueue.add calls in one behaviour of SpecQueue

-----------------------------------------------------------------------------
(* The universe: two roots; root "r1" is registered as codebase "a".       *)

Roots == {"r1", "r2"}
Names == {"a", "b"}

\* Path(path).name, daemon.py:198
Basename(p) == IF p = "r1" THEN "a" ELSE "b"

None == "none"
NoResponse == [cmd |-> None, arg |-> None, written |-> FALSE, ok |-> FALSE,
               message |-> None, data |-> None]

\* JobStatus, store.py:9-13
RUNNING   == "running"
COMPLETED == "completed"
FAILED    == "failed"
Terminal  == {COMPLETED, FAILED}

\* extensions, daemon.py:45
extensions == {"py", "js", "ts", "tsx", "rs", "go"}

\* CodeParser.detect_language: the language of a suffix, or None
detect_language(suffix) ==
    CASE suffix \in {"py", "pyi"}       -> "python"
      [] suffix \in {"js", "jsx", "mjs"} -> "javascript"
      [] suffix = "ts"                   -> "typescript"
      [] suffix = "tsx"                  -> "tsx"
      [] suffix = "rs"                   -> "rust"
      [] suffix = "go"                   -> "go"
      [] OTHER                           -> None

\* A directory entry: a source file with its symbols (symbol i of a file
\* is named i and has code text i), a file with an unsupported suffix, or
\* a file the ignore patterns exclude.
SrcFile(k) == [suffix |-> "py", ignored |-> FALSE,
               syms |-> [i \in 1..k |-> [name |-> i, code |-> i]]]
OtherFile   == [suffix |-> "md", ignored |-> FALSE, syms |-> <<>>]
IgnoredFile == [suffix |-> "py", ignored |-> TRUE, syms |-> <<>>]

Entries == {SrcFile(k) : k \in 0..MaxSyms} \cup {OtherFile, IgnoredFile}

SeqsUpTo(S, n) == UNION {[1..k -> S] : k \in 0..n}
Trees == SeqsUpTo(Entries, MaxFiles)

\* HashCache.compute_hash: a digest of the exact code text; distinct texts
\* of the model get distinct digests.
compute_hash(code) == (code * 7 + 3) % 11

\* faulty variant of is_changed: an identifier that has an entry is never
\* reported as changed
is_changed_absent(cache, symbol_id, current_hash) == symbol_id \notin DOMAIN cache

\* HashCache.is_changed
is_changed(cache, symbol_id, current_hash) ==
    IF symbol_id \notin DOMAIN cache THEN TRUE
    ELSE cache[symbol_id].hash # current_hash

\* faulty variant of update: an identifier that has an entry keeps it
update_if_absent(cache, symbol_id, code_hash, timestamp) ==
    [k \in DOMAIN cache \cup {symbol_id} |->
        IF k \in DOMAIN cache THEN cache[k]
        ELSE [hash |-> code_hash, timestamp |-> timestamp]]

\* HashCache.update
update(cache, symbol_id, code_hash, timestamp) ==
    [k \in DOMAIN cache \cup {symbol_id} |->
        IF k = symbol_id THEN [hash |-> code_hash, timestamp |-> timestamp]
        ELSE cache[k]]

\* f"{file_path}::{symbol.name}", daemon.py:82
SymbolId(fi, sym) == <<fi, sym.name>>

-----------------------------------------------------------------------------
(* Schedule strings and the Scheduler, scheduler.py *)

\* A schedule string by its shape: "every <n><unit>", a string of five
\* whitespace-separated fields that does not start with "every" (unit says
\* whether CronTrigger.from_crontab accepts it), or any other text.
Every(n, unit) == [kind |-> "every", n |-> n, unit |-> unit]
CronGood == [kind |-> "cron", n |-> 5, unit |-> "valid"]
CronBad  == [kind |-> "cron", n |-> 5, unit |-> "invalid"]
Text     == [kind |-> "text", n |-> 1, unit |-> None]

UnitSeconds(unit) ==
    CASE unit = "s" -> 1
      [] unit = "m" -> 60
      [] unit = "h" -> 3600
      [] unit = "d" -> 86400

\* datetime.timedelta keeps days, seconds and microseconds and accepts no
\* more than this many days (timedelta.max.days)
MaxTimedeltaDays == 999999999

\* the days of timedelta(**{units[unit]: value}) after normalisation
timedelta_days(value, unit) ==
    CASE unit = "s" -> value \div 86400
      [] unit = "m" -> value \div 1440
      [] unit = "h" -> value \div 24
      [] unit = "d" -> value

\* parse_interval, scheduler.py:16: the timedelta constructor raises
\* OverflowError when the value is out of its range
parse_interval_raises(spec) ==
    /\ spec.kind = "every"
    /\ spec.unit \in {"s", "m", "h", "d"}
    /\ timedelta_days(spec.n, spec.unit) > MaxTimedeltaDays

\* parse_interval: the interval in seconds, as a set that is empty when the
\* string does not match (None)
parse_interval(spec) ==
    IF spec.kind = "every" /\ spec.unit \in {"s", "m", "h", "d"}
    THEN {spec.n * UnitSeconds(spec.unit)}
    ELSE {}

\* is_cron
is_cron(spec) == spec.kind = "cron"

\* Scheduler.add_job, scheduler.py:43-49: "raise" when from_crontab rejects
\* the string or the timedelta constructor the number, "false" when parse_interval gives None or a zero timedelta
\* (not interval), "ok" when a trigger is built
add_job_outcome(schedule) ==
    IF is_cron(schedule)
    THEN IF schedule.unit = "valid" THEN "ok" ELSE "raise"
    ELSE IF parse_interval_raises(schedule) THEN "raise"
    ELSE IF parse_interval(schedule) \in {{}, {0}} THEN "false" ELSE "ok"

\* Scheduler.add_job, scheduler.py:51-58: replace_existing = True
add_job(trig, name, func) ==
    [n \in DOMAIN trig \cup {name} |-> IF n = name THEN func ELSE trig[n]]

\* Scheduler.remove_job
remove_job(trig, name) == [n \in DOMAIN trig \ {name} |-> trig[n]]

-----------------------------------------------------------------------------
(* Store *)

\* datetime.now() as read by store call number n of the scan that owns
\* job_id: the instant is named by the event that reads it.
Now(job_id, n) == <<job_id, n>>

\* a NULL last_run: the instant that names no event
Null == <<>>

\* Store.create_job
create_job(job_id, codebase_id, codebase_name, now) ==
    [j \in DOMAIN jobs \cup {job_id} |->
        IF j = job_id
        THEN [codebase_id |-> codebase_id, codebase_name |-> codebase_name,
              status |-> RUNNING, started_at |-> now, finished_at |-> None,
              symbols_processed |-> 0, files_processed |-> 0, error |-> None]
        ELSE jobs[j]]

\* Store.update_job, first statement: UPDATE jobs ... WHERE id = ?
update_job(job_id, status, symbols, files, error, now) ==
    [j \in DOMAIN jobs |->
        IF j = job_id
        THEN [jobs[j] EXCEPT !.status = status,
                             !.finished_at = IF status \in Terminal THEN now ELSE None,
                             !.symbols_processed = symbols,
                             !.files_processed = files,
                             !.error = error]
        ELSE jobs[j]]

\* faulty variant of update_last_run: the codebase is matched by the Job's
\* codebase_name instead of its codebase_id
update_last_run_by_name(job_id, now) ==
    {IF job_id \in DOMAIN jobs /\ cb.name = jobs[job_id].codebase_name
     THEN [cb EXCEPT !.last_run = now]
     ELSE cb : cb \in codebases}

\* Store.update_job, second statement: UPDATE codebases SET last_run = ?
\* WHERE id = (SELECT codebase_id FROM jobs WHERE id = ?)
update_last_run(job_id, now) ==
    {IF job_id \in DOMAIN jobs /\ cb.id = jobs[job_id].codebase_id
     THEN [cb EXCEPT !.last_run = now]
     ELSE cb : cb \in codebases}

\* Store.add_log
add_log(job_id, message, level) ==
    [j \in DOMAIN logs \cup {job_id} |->
        IF j = job_id
        THEN Append(IF j \in DOMAIN logs THEN logs[j] ELSE <<>>,
                    [message |-> message, level |-> level])
        ELSE logs[j]]

\* Store.get_running_jobs
get_running_jobs == {j \in DOMAIN jobs : jobs[j].status = RUNNING}

\* Store.add_codebase: INSERT OR REPLACE deletes the row that holds the
\* name (UNIQUE) and inserts a row with a fresh AUTOINCREMENT id
add_codebase(id, name, path, schedule) ==
    {cb \in codebases : cb.name # name}
        \cup {[id |-> id, name |-> name, path |-> path, schedule |-> schedule,
                created_at |-> Now(0, id), last_run |-> Null]}

\* Store.remove_codebase
remove_codebase(name) == {cb \in codebases : cb.name # name}

-----------------------------------------------------------------------------
(* run_scan coroutines *)

NewTask(origin, codebase_id, name, path) ==
    [origin |-> origin, codebase_id |-> codebase_id, name |-> name, path |-> path,
     pc |-> "created", job_id |-> 0,
     source_files |-> <<>>, fi |-> 0, si |-> 0, file_summaries |-> <<>>,
     cache |-> <<>>, files_processed |-> 0, symbols_processed |-> 0,
     bound |-> FALSE,       \* files_processed / symbols_processed are assigned
     err |-> None,          \* the exception being handled, str(e)
     result |-> None,       \* the value run_scan returned
     calls |-> 0,           \* store calls made so far
     probe |-> None,        \* what is_available answered: "up" or "down"
     enumerated |-> FALSE,  \* path.rglob was called
     found |-> -1,          \* len(source_files) once discovery has finished
     opened |-> {},         \* entries the file loop has started on
     parser_calls |-> 0,    \* detect_language + extract_symbols calls
     llm_calls |-> 0,       \* summarize_async calls
     llm_ok |-> 0,          \* summarize_async calls that returned
     llm_failed |-> {},     \* symbols whose summarize_async call raised
     visited |-> {},        \* symbols the symbol loop reached
     files_ok |-> 0,        \* files whose processing finished without raising
     files_raised |-> 0]    \* files whose processing raised

TaskIds == 1..Len(tasks)

\* a coroutine that has left run_scan: by return, by an exception, or
\* cancelled (asyncio.CancelledError) when the event loop shut down
Done == {"returned", "raised", "cancelled"}

\* is_scanning, daemon.py:29-30
is_scanning(name) == name \in running_scans

\* Tasks past admission that have not left run_scan
InFlight == {t \in TaskIds : tasks[t].pc \notin Done \cup {"created"}}

-----------------------------------------------------------------------------
(* The synchronous stretches of the per-file loop, daemon.py:71-105.  A    *)
(* stretch starts where the coroutine resumes and ends at the next await;  *)
(* it returns every context [t, maps, cacheFile] the stretch can end in,   *)
(* one for each way the file system calls in it can succeed or raise.      *)

Tree(t) == src[t.path]

\* the directory entry the loop is at
CurEntry(t) == t.source_files[t.fi]
CurSyms(t) == Tree(t)[CurEntry(t)].syms

\* an exception inside the per-file try: control is at the await of
\* add_log in the handler, daemon.py:102-103
FileRaised(c, what) ==
    [c EXCEPT !.t.pc = "log_file_err", !.t.err = what,
              !.t.files_raised = @ + 1]

\* ShadowFS.write_map
write_map(m, entry, content) ==
    [e \in DOMAIN m \cup {entry} |-> IF e = entry THEN content ELSE m[e]]

\* What <root>/mapper.lock holds: no file; the text json.dumps wrote, the
\* members of one JSON object; text that is no JSON; a file that read_text
\* cannot open (OSError); bytes that are no text in the default encoding.
NoFile == [kind |-> "missing", members |-> {}]
JsonText(members) == [kind |-> "json", members |-> members]
Garbled == [kind |-> "garbled", members |-> {}]
Unreadable == [kind |-> "unreadable", members |-> {}]
BadBytes == [kind |-> "bytes", members |-> {}]

\* faulty variant of dumps: the timestamps are written as whole numbers of
\* ten
dumps_rounded(cache) ==
    {[key |-> k, hash |-> cache[k].hash,
      timestamp |-> (cache[k].timestamp \div 10) * 10] : k \in DOMAIN cache}

\* json.dumps(self._cache, indent=2), cache.py:26: one member per key, its
\* value the object {"hash": ..., "timestamp": ...}
dumps(cache) ==
    {[key |-> k, hash |-> cache[k].hash, timestamp |-> cache[k].timestamp]
        : k \in DOMAIN cache}

\* json.loads of such a text, cache.py:20: a dict with one entry per member
loads(members) ==
    [k \in {m.key : m \in members} |->
        LET m == CHOOSE x \in members : x.key = k
        IN  [hash |-> m.hash, timestamp |-> m.timestamp]]

\* HashCache.save, cache.py:25-26
save(cf, root, cache) == [cf EXCEPT ![root] = JsonText(dumps(cache))]

\* HashCache._load, cache.py:17-23: read_text raises UnicodeDecodeError on
\* bytes that are no text; the handler names JSONDecodeError and OSError only
load_raises(file) == file.kind = "bytes"

\* HashCache._load when it returns: the parsed object, or the empty map for
\* a missing file, an OSError or a JSONDecodeError
load(cf, root) ==
    IF cf[root].kind = "json" THEN loads(cf[root].members) ELSE <<>>

RECURSIVE RunFiles(_), RunSymbols(_)

\* daemon.py:95-100 and on to the next file
EndFile(c) ==
    LET t == c.t
        root == t.path
        written == [c EXCEPT !.maps[root] =
                        write_map(@, CurEntry(t), t.file_summaries)]
        w == IF t.file_summaries # <<>> THEN written ELSE c
        counted == [w EXCEPT !.t.files_processed = @ + 1]
        saved == [counted EXCEPT !.cacheFile = save(@, root, t.cache),
                                 !.t.files_ok = @ + 1,
                                 !.t.fi = @ + 1]
    IN  (IF t.file_summaries # <<>> THEN {FileRaised(c, "write")} ELSE {})
        \cup {FileRaised(counted, "save")}
        \cup RunFiles(saved)

\* daemon.py:81-86: the symbol loop up to the await of add_log("Processing")
RunSymbols(c) ==
    LET t == c.t
    IN  IF t.si > Len(CurSyms(t)) THEN EndFile(c)
        ELSE LET sym == CurSyms(t)[t.si]
                 symbol_id == SymbolId(CurEntry(t), sym)
                 code_hash == compute_hash(sym.code)
                 seen == [c EXCEPT !.t.visited = @ \cup {<<CurEntry(t), t.si>>}]
             IN  IF is_changed(t.cache, symbol_id, code_hash)
                 THEN {[seen EXCEPT !.t.pc = "log_processing"]}
                 ELSE RunSymbols([seen EXCEPT !.t.si = @ + 1])

\* daemon.py:71-80: the head of the file loop
RunFiles(c) ==
    LET t == c.t
    IN  IF t.fi > Len(t.source_files)
        THEN {[c EXCEPT !.t.pc = "complete_update"]}
        ELSE LET lang == detect_language(Tree(t)[CurEntry(t)].suffix)
                 detected == [c EXCEPT !.t.parser_calls = @ + 1,
                                       !.t.opened = @ \cup {CurEntry(t)}]
                 parsed == [detected EXCEPT !.t.parser_calls = @ + 1,
                                            !.t.file_summaries = <<>>,
                                            !.t.si = 1]
             IN  IF lang = None THEN RunFiles([detected EXCEPT !.t.fi = @ + 1])
                 ELSE {FileRaised(detected, "read"), FileRaised(parsed, "parse")}
                      \cup RunSymbols(parsed)

\* daemon.py:57-67: the entries of the tree that pass the suffix, ignore and
\* language filters, in rglob order
Qualifies(e) ==
    /\ e.suffix \in extensions
    /\ ~e.ignored
    /\ detect_language(e.suffix) # None

Discover(tree) ==
    SelectSeq([i \in 1..Len(tree) |-> i], LAMBDA i : Qualifies(tree[i]))

\* detect_language calls made by discovery: one per entry that passes the
\* suffix and ignore filters
DiscoveryParserCalls(tree) ==
    Cardinality({i \in 1..Len(tree) :
                    tree[i].suffix \in extensions /\ ~tree[i].ignored})

-----------------------------------------------------------------------------
(* run_scan, daemon.py:32-115, one action per resumption *)

Put(t, rec) == [tasks EXCEPT ![t] = rec]

\* the coroutine has left run_scan: its frame is gone
Left(rec, pc, result) ==
    [rec EXCEPT !.pc = pc, !.result = result,
                !.source_files = <<>>, !.fi = 0, !.si = 0,
                !.file_summaries = <<>>, !.cache = <<>>]

\* daemon.py:33: the admission test
Admitted(name) == name \notin running_scans

\* faulty variant of AfterRejection: the early return sits inside the try, so the
\* finally clause discards the name
AfterRejectionDiscards(name) == running_scans \ {name}

\* daemon.py:33-34: the in-flight set a rejected call leaves behind (the
\* early return sits outside the try/finally)
AfterRejection(name) == running_scans

\* faulty variant of Release: no finally clause
ReleaseForgotten(name) == running_scans

\* daemon.py:112-113: finally: discard(name)
Release(name) == running_scans \ {name}

\* daemon.py:115: return files_processed, symbols_processed; the names are
\* unbound when the exception came before line 47 (UnboundLocalError)
ReturnAfterHandler(rec) ==
    IF rec.bound
    THEN Left(rec, "returned", <<rec.files_processed, rec.symbols_processed>>)
    ELSE Left(rec, "raised", None)

Apply(t, c) ==
    /\ tasks' = Put(t, c.t)
    /\ maps' = c.maps
    /\ cacheFile' = c.cacheFile

Ctx(rec) == [t |-> rec, maps |-> maps, cacheFile |-> cacheFile]

\* The task's first step, daemon.py:33-40.  asyncio starts tasks in the
\* order they were created (loop.call_soon is FIFO).
Start(t) ==
    LET me == tasks[t] IN
    /\ t \in TaskIds
    /\ me.pc = "created"
    /\ \A u \in 1..(t - 1) : tasks[u].pc # "created"
    /\ IF Admitted(me.name)
       THEN /\ running_scans' = running_scans \cup {me.name}
            /\ tasks' = Put(t, [me EXCEPT !.pc = "create_job", !.job_id = t])
       ELSE /\ running_scans' = AfterRejection(me.name)
            /\ tasks' = Put(t, Left(me, "returned", <<0, 0>>))
    /\ response' = NoResponse
    /\ UNCHANGED <<lib, seq, daemon, conns, codebases, triggers, jobs, logs, src, cacheFile, maps>>

\* create_job returns; daemon.py:42-50 up to the await of add_log
CreateJob(t) ==
    LET me == tasks[t] IN
    /\ t \in TaskIds
    /\ me.pc = "create_job"
    /\ jobs' = create_job(me.job_id, me.codebase_id, me.name, Now(me.job_id, me.calls))
    /\ \E ok \in BOOLEAN :
         tasks' = Put(t,
            \* GitignoreSpec, ShadowFS, HashCache constructed
            IF ok /\ ~load_raises(cacheFile[me.path])
            THEN [me EXCEPT !.pc = "log_start", !.calls = @ + 1, !.bound = TRUE,
                            !.cache = load(cacheFile, me.path)]
            ELSE [me EXCEPT !.pc = "fail_update", !.calls = @ + 1, !.err = "ctor"])
    /\ response' = NoResponse
    /\ UNCHANGED <<lib, seq, daemon, conns, codebases, triggers, logs, running_scans, src, cacheFile, maps>>

\* faulty variant of AfterStartLog: discovery runs before the availability probe
ProbeAfterDiscovery(rec, available, walked) ==
    LET tree == src[rec.path]
        probed == [rec EXCEPT !.probe = IF available THEN "up" ELSE "down",
                              !.enumerated = TRUE]
        walkedOk == [probed EXCEPT !.source_files = Discover(tree),
                                   !.found = Len(Discover(tree)),
                                   !.parser_calls = @ + DiscoveryParserCalls(tree)]
    IN  IF ~walked THEN [probed EXCEPT !.pc = "fail_update", !.err = "walk"]
        ELSE IF ~available THEN [walkedOk EXCEPT !.pc = "log_warn"]
        ELSE [walkedOk EXCEPT !.pc = "log_found"]

\* daemon.py:52-69: the availability gate, then discovery, up to the next
\* await; available and walked say whether is_available() answered true and
\* whether the directory walk finished without raising
AfterStartLog(rec, available, walked) ==
    LET tree == src[rec.path]
        probed == [rec EXCEPT !.probe = IF available THEN "up" ELSE "down"]
    IN  IF ~available THEN [probed EXCEPT !.pc = "log_warn"]
        ELSE IF walked
        THEN [probed EXCEPT !.pc = "log_found", !.enumerated = TRUE,
                            !.source_files = Discover(tree),
                            !.found = Len(Discover(tree)),
                            !.parser_calls = @ + DiscoveryParserCalls(tree)]
        ELSE [probed EXCEPT !.pc = "fail_update", !.enumerated = TRUE,
                            !.err = "walk"]

\* add_log("Starting scan") returns; daemon.py:50-69
LogStart(t) ==
    LET me == tasks[t] IN
    /\ t \in TaskIds
    /\ me.pc = "log_start"
    /\ logs' = add_log(me.job_id, <<"Starting scan", me.path>>, "info")
    /\ \E available \in BOOLEAN, walked \in BOOLEAN :
         tasks' = Put(t, AfterStartLog([me EXCEPT !.calls = @ + 1], available, walked))
    /\ response' = NoResponse
    /\ UNCHANGED <<lib, seq, daemon, conns, codebases, triggers, jobs, running_scans, src, cacheFile, maps>>

\* add_log("Ollama not available", "warn") returns; daemon.py:53-54
LogWarn(t) ==
    LET me == tasks[t] IN
    /\ t \in TaskIds
    /\ me.pc = "log_warn"
    /\ logs' = add_log(me.job_id, <<"Ollama not available - skipping", 0>>, "warn")
    /\ tasks' = Put(t, [me EXCEPT !.pc = "gate_update", !.calls = @ + 1])
    /\ response' = NoResponse
    /\ UNCHANGED <<lib, seq, daemon, conns, codebases, triggers, jobs, running_scans, src, cacheFile, maps>>

\* update_job(FAILED, "Ollama not available") returns; daemon.py:54-55,
\* then the finally clause
GateUpdate(t) ==
    LET me == tasks[t]
        now == Now(me.job_id, me.calls)
    IN
    /\ t \in TaskIds
    /\ me.pc = "gate_update"
    /\ jobs' = update_job(me.job_id, FAILED, 0, 0, "Ollama not available", now)
    /\ codebases' = update_last_run(me.job_id, now)
    /\ running_scans' = Release(me.name)
    /\ tasks' = Put(t, Left([me EXCEPT !.calls = @ + 1], "returned", <<0, 0>>))
    /\ response' = NoResponse
    /\ UNCHANGED <<lib, seq, daemon, conns, triggers, logs, src, cacheFile, maps>>

\* add_log("Found n source files") returns; daemon.py:71 into the file loop
LogFound(t) ==
    LET me == tasks[t] IN
    /\ t \in TaskIds
    /\ me.pc = "log_found"
    /\ logs' = add_log(me.job_id, <<"Found", Len(me.source_files)>>, "info")
    /\ \E c \in RunFiles(Ctx([me EXCEPT !.calls = @ + 1, !.fi = 1])) : Apply(t, c)
    /\ response' = NoResponse
    /\ UNCHANGED <<lib, seq, daemon, conns, codebases, triggers, jobs, running_scans, src>>

\* add_log("Processing") returns; daemon.py:88: summarize_async is awaited
LogProcessing(t) ==
    LET me == tasks[t] IN
    /\ t \in TaskIds
    /\ me.pc = "log_processing"
    /\ logs' = add_log(me.job_id, <<"Processing", <<CurEntry(me), me.si>>>>, "info")
    /\ tasks' = Put(t, [me EXCEPT !.pc = "summarize", !.calls = @ + 1,
                                  !.llm_calls = @ + 1])
    /\ response' = NoResponse
    /\ UNCHANGED <<lib, seq, daemon, conns, codebases, triggers, jobs, running_scans, src, cacheFile, maps>>

\* faulty variant of OnSummarizeError: no inner try, the per-file handler catches
SummarizeErrorAbortsFile(rec) ==
    [rec EXCEPT !.pc = "log_file_err", !.err = "llm",
                !.llm_failed = @ \cup {<<CurEntry(rec), rec.si>>},
                !.files_raised = @ + 1]

\* daemon.py:92-93: summarize_async raised; the inner handler awaits add_log
OnSummarizeError(rec) ==
    [rec EXCEPT !.pc = "log_llm_err",
                !.llm_failed = @ \cup {<<CurEntry(rec), rec.si>>}]

\* summarize_async returns or raises; daemon.py:89-93
Summarize(t) ==
    LET me == tasks[t]
        sym == CurSyms(me)[me.si]
        summarized ==
            [me EXCEPT !.file_summaries = Append(@, sym.name),
                       !.cache = update(@, SymbolId(CurEntry(me), sym),
                                        compute_hash(sym.code), me.job_id),
                       !.symbols_processed = @ + 1,
                       !.llm_ok = @ + 1,
                       !.si = @ + 1]
    IN
    /\ t \in TaskIds
    /\ me.pc = "summarize"
    /\ \E ok \in BOOLEAN :
         IF ok
         THEN \E c \in RunSymbols(Ctx(summarized)) : Apply(t, c)
         ELSE /\ tasks' = Put(t, OnSummarizeError(me))
              /\ UNCHANGED <<lib, seq, daemon, conns, maps, cacheFile>>
    /\ response' = NoResponse
    /\ UNCHANGED <<lib, seq, daemon, conns, codebases, triggers, jobs, logs, running_scans, src>>

\* add_log("LLM error", "error") returns; daemon.py:93 and on with the
\* next symbol
LogLlmErr(t) ==
    LET me == tasks[t] IN
    /\ t \in TaskIds
    /\ me.pc = "log_llm_err"
    /\ logs' = add_log(me.job_id, <<"LLM error", <<CurEntry(me), me.si>>>>, "error")
    /\ \E c \in RunSymbols(Ctx([me EXCEPT !.calls = @ + 1, !.si = @ + 1])) :
         Apply(t, c)
    /\ response' = NoResponse
    /\ UNCHANGED <<lib, seq, daemon, conns, codebases, triggers, jobs, running_scans, src>>

\* add_log("Error processing", "error") returns; daemon.py:103 and on with
\* the next file
LogFileErr(t) ==
    LET me == tasks[t] IN
    /\ t \in TaskIds
    /\ me.pc = "log_file_err"
    /\ logs' = add_log(me.job_id, <<"Error processing", <<CurEntry(me), me.err>>>>, "error")
    /\ \E c \in RunFiles(Ctx([me EXCEPT !.calls = @ + 1, !.err = None,
                                        !.fi = @ + 1])) :
         Apply(t, c)
    /\ response' = NoResponse
    /\ UNCHANGED <<lib, seq, daemon, conns, codebases, triggers, jobs, running_scans, src>>

\* faulty variant of CompletedRow: a scan that processed no file is recorded failed
CompletedRowEmptyFails(rec) ==
    [status |-> IF rec.files_processed = 0 THEN FAILED ELSE COMPLETED,
     symbols |-> rec.symbols_processed,
     files |-> rec.files_processed,
     error |-> IF rec.files_processed = 0 THEN "no source files" ELSE None]

\* daemon.py:105: the arguments of update_job on the normal path
CompletedRow(rec) ==
    [status |-> COMPLETED, symbols |-> rec.symbols_processed,
     files |-> rec.files_processed, error |-> None]

\* update_job(COMPLETED) returns; daemon.py:105-106
CompleteUpdate(t) ==
    LET me == tasks[t]
        now == Now(me.job_id, me.calls)
    IN
    /\ t \in TaskIds
    /\ me.pc = "complete_update"
    /\ jobs' = update_job(me.job_id, CompletedRow(me).status, CompletedRow(me).symbols,
                          CompletedRow(me).files, CompletedRow(me).error, now)
    /\ codebases' = update_last_run(me.job_id, now)
    /\ tasks' = Put(t, [me EXCEPT !.pc = "log_completed", !.calls = @ + 1])
    /\ response' = NoResponse
    /\ UNCHANGED <<lib, seq, daemon, conns, triggers, logs, running_scans, src, cacheFile, maps>>

\* add_log("Completed") returns; the finally clause; daemon.py:115
LogCompleted(t) ==
    LET me == tasks[t] IN
    /\ t \in TaskIds
    /\ me.pc = "log_completed"
    /\ logs' = add_log(me.job_id,
                       <<"Completed", <<me.files_processed, me.symbols_processed>>>>,
                       "info")
    /\ running_scans' = Release(me.name)
    /\ tasks' = Put(t, Left([me EXCEPT !.calls = @ + 1], "returned",
                            <<me.files_processed, me.symbols_processed>>))
    /\ response' = NoResponse
    /\ UNCHANGED <<lib, seq, daemon, conns, codebases, triggers, jobs, src, cacheFile, maps>>

\* daemon.py:109: the arguments of update_job in the failure handler
FailedRow(rec) ==
    [status |-> FAILED, symbols |-> 0, files |-> 0, error |-> rec.err]

\* except Exception: update_job(FAILED, 0, 0, str(e)) returns; daemon.py:109
FailUpdate(t) ==
    LET me == tasks[t]
        now == Now(me.job_id, me.calls)
    IN
    /\ t \in TaskIds
    /\ me.pc = "fail_update"
    /\ jobs' = update_job(me.job_id, FailedRow(me).status, FailedRow(me).symbols,
                          FailedRow(me).files, FailedRow(me).error, now)
    /\ codebases' = update_last_run(me.job_id, now)
    /\ tasks' = Put(t, [me EXCEPT !.pc = "log_failed", !.calls = @ + 1])
    /\ response' = NoResponse
    /\ UNCHANGED <<lib, seq, daemon, conns, triggers, logs, running_scans, src, cacheFile, maps>>

\* add_log("Failed", "error") returns; the finally clause; daemon.py:115
LogFailed(t) ==
    LET me == tasks[t] IN
    /\ t \in TaskIds
    /\ me.pc = "log_failed"
    /\ logs' = add_log(me.job_id, <<"Failed", me.err>>, "error")
    /\ running_scans' = Release(me.name)
    /\ tasks' = Put(t, ReturnAfterHandler([me EXCEPT !.calls = @ + 1]))
    /\ response' = NoResponse
    /\ UNCHANGED <<lib, seq, daemon, conns, codebases, triggers, jobs, src, cacheFile, maps>>

Step(t) ==
    \/ Start(t)
    \/ CreateJob(t)
    \/ LogStart(t)
    \/ LogWarn(t)
    \/ GateUpdate(t)
    \/ LogFound(t)
    \/ LogProcessing(t)
    \/ Summarize(t)
    \/ LogLlmErr(t)
    \/ LogFileErr(t)
    \/ CompleteUpdate(t)
    \/ LogCompleted(t)
    \/ FailUpdate(t)
    \/ LogFailed(t)

-----------------------------------------------------------------------------
(* Control commands that start scans, and scheduler trigger fires *)

\* writer.write(json.dumps(response)), daemon.py:165
Reply(cmd, arg, ok, message) ==
    [cmd |-> cmd, arg |-> arg, written |-> TRUE, ok |-> ok, message |-> message,
     data |-> None]

\* a response that carries rows instead of a message (list, ps, jobs, logs)
ReplyData(cmd, arg, data) ==
    [cmd |-> cmd, arg |-> arg, written |-> TRUE, ok |-> TRUE, message |-> None,
     data |-> data]

\* the handler raised or was cancelled before writer.write: the finally
\* clause closes the connection, daemon.py:167-169, nothing was written
Dropped(cmd, arg) ==
    [cmd |-> cmd, arg |-> arg, written |-> FALSE, ok |-> FALSE, message |-> None,
     data |-> None]

\* a handler suspended in a store call of _process_command
Conn(cmd, name, path, schedule) ==
    [cmd |-> cmd, name |-> name, path |-> path, schedule |-> schedule,
     seen |-> Len(tasks),   \* coroutines created before the handler was dispatched
     pc |-> "db",           \* "db": the statement has not run; "resume": it has
     id |-> 0,              \* add_codebase: cursor.lastrowid
     removed |-> FALSE,     \* remove_codebase: rowcount > 0
     known |-> FALSE,       \* remove: a row held the name at dispatch
     unscheduled |-> FALSE] \* remove: remove_job found a trigger

\* asyncio.create_task(self._engine.run_scan(...)): the coroutine is
\* scheduled, none of its code has run yet
create_task(task) == Append(tasks, task)

\* Daemon._process_command, cmd == "run", daemon.py:185-187: the handler
\* is suspended in get_codebases; seen is the number of coroutines created
\* before it
RunDispatch(name) ==
    /\ conns' = Append(conns, Conn("run", name, None, None))
    /\ response' = NoResponse
    /\ UNCHANGED <<lib, seq, daemon, codebases, triggers, jobs, logs, running_scans, tasks, src,
                   cacheFile, maps>>

RemoveAt(q, i) == [k \in 1..(Len(q) - 1) |-> IF k < i THEN q[k] ELSE q[k + 1]]

\* get_codebases returns; daemon.py:188-194.  The event loop runs callbacks
\* in the order they were scheduled: a coroutine created before this
\* handler was dispatched has taken its first step by now.
CmdRun(i) ==
    LET name == conns[i].name
        cb == CHOOSE c \in codebases : c.name = name
    IN
    /\ i \in 1..Len(conns)
    /\ conns[i].cmd = "run"
    /\ \A u \in 1..conns[i].seen : tasks[u].pc # "created"
    /\ conns' = RemoveAt(conns, i)
    /\ IF \E c \in codebases : c.name = name
       THEN IF is_scanning(name)
            THEN /\ response' = Reply("run", name, FALSE, "Scan already running")
                 /\ UNCHANGED tasks
            ELSE /\ tasks' = create_task(NewTask("run", cb.id, cb.name, cb.path))
                 /\ response' = Reply("run", name, TRUE, "Started scan")
       ELSE /\ response' = Reply("run", name, FALSE, "not found")
            /\ UNCHANGED tasks
    /\ UNCHANGED <<lib, seq, daemon, codebases, triggers, jobs, logs, running_scans, src,
                   cacheFile, maps>>

\* Daemon._process_command, cmd == "run_once", daemon.py:196-200
CmdRunOnce(path) ==
    /\ tasks' = create_task(NewTask("run_once", 0, Basename(path), path))
    /\ response' = Reply("run_once", path, TRUE, "Started one-time scan")
    /\ UNCHANGED <<lib, seq, daemon, conns, codebases, triggers, jobs, logs, running_scans, src,
                   cacheFile, maps>>

\* The scheduler fires trigger scan_<name>: job_func of
\* Daemon._register_scheduled_job, daemon.py:155-158, becomes a task
TriggerFire(name) ==
    /\ name \in DOMAIN triggers
    /\ tasks' = create_task(NewTask("trigger", triggers[name].codebase_id,
                                    triggers[name].name, triggers[name].path))
    /\ response' = NoResponse
    /\ UNCHANGED <<lib, seq, daemon, conns, codebases, triggers, jobs, logs, running_scans, src,
                   cacheFile, maps>>

-----------------------------------------------------------------------------
(* Registry commands.  A handler that awaits the store is three steps: it  *)
(* is dispatched and suspends, the statement runs in the database, the     *)
(* handler resumes.                                                        *)

\* the server accepts connections and the scheduler fires
Serving == ~daemon.exited

Others(i) == RemoveAt(conns, i)

\* Daemon._process_command, cmd == "scan", daemon.py:177-181: suspended in
\* add_codebase
ScanDispatch(name, path, schedule) ==
    /\ Serving
    /\ conns' = Append(conns, Conn("scan", name, path, schedule))
    /\ daemon' = [daemon EXCEPT !.requests = @ + 1]
    /\ response' = NoResponse
    /\ UNCHANGED <<lib, codebases, seq, triggers, jobs, logs, running_scans, tasks, src,
                   cacheFile, maps>>

\* Store.add_codebase commits, store.py:88-94
ScanDb(i) ==
    /\ i \in 1..Len(conns)
    /\ conns[i].cmd = "scan" /\ conns[i].pc = "db"
    /\ seq' = seq + 1
    /\ codebases' = add_codebase(seq + 1, conns[i].name, conns[i].path,
                                 conns[i].schedule)
    /\ conns' = [conns EXCEPT ![i].pc = "resume", ![i].id = seq + 1]
    /\ response' = NoResponse
    /\ UNCHANGED <<lib, daemon, triggers, jobs, logs, running_scans, tasks, src,
                   cacheFile, maps>>

\* Daemon._register_scheduled_job, daemon.py:155-158: the closure captures
\* the id, name, path of the row add_codebase returned; the result of
\* Scheduler.add_job is dropped
register_scheduled_job(trig, codebase_id, name, path, schedule) ==
    IF add_job_outcome(schedule) = "ok"
    THEN add_job(trig, name, [codebase_id |-> codebase_id, name |-> name,
                              path |-> path, schedule |-> schedule])
    ELSE trig

\* the request a handler serves
Request(c) == [name |-> c.name, path |-> c.path, schedule |-> c.schedule]

\* add_codebase returns; daemon.py:182-183.  When from_crontab raises, the
\* exception leaves _process_command and no response is written.
ScanResume(i) ==
    LET c == conns[i] IN
    /\ i \in 1..Len(conns)
    /\ c.cmd = "scan" /\ c.pc = "resume"
    /\ triggers' = register_scheduled_job(triggers, c.id, c.name, c.path, c.schedule)
    /\ response' = IF add_job_outcome(c.schedule) = "raise"
                   THEN Dropped("scan", Request(c))
                   ELSE Reply("scan", Request(c), TRUE, "Registered")
    /\ conns' = Others(i)
    /\ UNCHANGED <<lib, codebases, seq, daemon, jobs, logs, running_scans, tasks, src,
                   cacheFile, maps>>

\* Daemon._process_command, cmd == "remove", daemon.py:239-242: the trigger
\* is removed, then the handler suspends in remove_codebase
RemoveDispatch(name) ==
    /\ Serving
    /\ triggers' = remove_job(triggers, name)
    /\ conns' = Append(conns,
                       [Conn("remove", name, None, None) EXCEPT
                           !.known = \E cb \in codebases : cb.name = name,
                           !.unscheduled = name \in DOMAIN triggers])
    /\ daemon' = [daemon EXCEPT !.requests = @ + 1]
    /\ response' = NoResponse
    /\ UNCHANGED <<lib, codebases, seq, jobs, logs, running_scans, tasks, src,
                   cacheFile, maps>>

\* Store.remove_codebase commits, store.py:110-114
RemoveDb(i) ==
    /\ i \in 1..Len(conns)
    /\ conns[i].cmd = "remove" /\ conns[i].pc = "db"
    /\ codebases' = remove_codebase(conns[i].name)
    /\ conns' = [conns EXCEPT ![i].pc = "resume",
                              ![i].removed = \E cb \in codebases : cb.name = conns[i].name]
    /\ response' = NoResponse
    /\ UNCHANGED <<lib, seq, daemon, triggers, jobs, logs, running_scans, tasks, src,
                   cacheFile, maps>>

\* remove_codebase returns; daemon.py:243
RemoveResume(i) ==
    LET c == conns[i] IN
    /\ i \in 1..Len(conns)
    /\ c.cmd = "remove" /\ c.pc = "resume"
    /\ response' = Reply("remove", [name |-> c.name, known |-> c.known,
                                     unscheduled |-> c.unscheduled],
                         c.removed, IF c.removed THEN "Removed" ELSE "not found")
    /\ conns' = Others(i)
    /\ UNCHANGED <<lib, codebases, seq, daemon, triggers, jobs, logs, running_scans, tasks,
                   src, cacheFile, maps>>

-----------------------------------------------------------------------------
(* Commands that only read, daemon.py:174-175, 202-237, 249, and a request *)
(* that json.loads rejects, daemon.py:163                                  *)

Answer(r) ==
    /\ Serving
    /\ response' = r
    /\ UNCHANGED <<lib, codebases, seq, daemon, triggers, jobs, logs, running_scans, tasks,
                   conns, src, cacheFile, maps>>

Ping == Answer(Reply("ping", None, TRUE, "pong"))

List ==
    Answer(ReplyData("list", None,
        {[name |-> cb.name, path |-> cb.path, schedule |-> cb.schedule,
          last_run |-> cb.last_run] : cb \in codebases}))

Ps ==
    Answer(ReplyData("ps", None,
        [j \in get_running_jobs |->
            [codebase |-> jobs[j].codebase_name, status |-> jobs[j].status,
             started |-> jobs[j].started_at]]))

Jobs ==
    Answer(ReplyData("jobs", None,
        [j \in DOMAIN jobs |->
            [codebase |-> jobs[j].codebase_name, status |-> jobs[j].status,
             files |-> jobs[j].files_processed, symbols |-> jobs[j].symbols_processed,
             started |-> jobs[j].started_at, finished |-> jobs[j].finished_at]]))

\* faulty variant of Logs: the rows that were returned are pruned
LogsPruning(name) ==
    LET mine == {j \in DOMAIN jobs : jobs[j].codebase_name = name}
        newest == CHOOSE j \in mine : \A k \in mine : k <= j
        found == mine # {} /\ newest \in DOMAIN logs
    IN  /\ Serving
        /\ response' = ReplyData("logs", name, IF found THEN logs[newest] ELSE <<>>)
        /\ logs' = IF found THEN [logs EXCEPT ![newest] = <<>>] ELSE logs
        /\ UNCHANGED <<lib, codebases, seq, daemon, triggers, jobs, running_scans, tasks,
                       conns, src, cacheFile, maps>>

\* logs <name>: no log row carries the name as its job id, so the newest
\* Job of that codebase name is looked up (job ids grow with started_at)
Logs(name) ==
    LET mine == {j \in DOMAIN jobs : jobs[j].codebase_name = name}
        newest == CHOOSE j \in mine : \A k \in mine : k <= j
    IN  Answer(ReplyData("logs", name,
            IF mine # {} /\ newest \in DOMAIN logs THEN logs[newest] ELSE <<>>))

Unknown == Answer(Reply("unknown", None, FALSE, "Unknown command"))

\* json.loads raises: the finally clause closes the connection
Undecodable == Answer(Dropped("undecodable", None))

-----------------------------------------------------------------------------
(* stop and the end of the event loop *)

\* Daemon._process_command, cmd == "stop", daemon.py:245-247
StopCmd ==
    /\ Serving
    /\ daemon' = [daemon EXCEPT !.shutdowns = @ + 1, !.requests = @ + 1,
                                !.in_flight = @ \cup InFlight]
    /\ response' = Reply("stop", None, TRUE, "Daemon stopping")
    /\ UNCHANGED <<lib, codebases, seq, triggers, jobs, logs, running_scans, tasks, conns,
                   src, cacheFile, maps>>

\* faulty variant of ShutdownDue: _shutdown runs although no stop command
\* created it
ShutdownUnasked == TRUE

\* a _shutdown coroutine exists only once a stop command has created it,
\* daemon.py:246
ShutdownDue == daemon.shutdowns > 0

\* Daemon._shutdown after its sleep, daemon.py:251-253
Shutdown ==
    /\ Serving
    /\ ShutdownDue
    /\ daemon' = [daemon EXCEPT !.running = FALSE, !.shutdowns = @ - 1]
    /\ response' = NoResponse
    /\ UNCHANGED <<lib, codebases, seq, triggers, jobs, logs, running_scans, tasks, conns,
                   src, cacheFile, maps>>

\* CancelledError is thrown into a coroutine at the await it is suspended
\* in: it is no Exception, so neither handler of run_scan catches it; the
\* finally clause runs, daemon.py:112-113.  A coroutine that has not
\* started never runs.
Cancelled(rec) == IF rec.pc \in Done THEN rec ELSE Left(rec, "cancelled", None)

\* run_daemon leaves its loop once _running is false (main.py:96-104):
\* Daemon.stop, then asyncio.run cancels every task that is left
Exit ==
    /\ Serving
    /\ ~daemon.running
    /\ daemon' = [daemon EXCEPT !.exited = TRUE, !.shutdowns = 0]
    /\ tasks' = [t \in DOMAIN tasks |-> Cancelled(tasks[t])]
    /\ running_scans' = running_scans \ {tasks[t].name : t \in InFlight}
    /\ conns' = <<>>
    /\ response' = NoResponse
    /\ UNCHANGED <<lib, codebases, seq, triggers, jobs, logs, src, cacheFile, maps>>

-----------------------------------------------------------------------------
(* WorkQueue, processor/queue_manager.py.  process creates the workers and *)
(* waits in gather; a worker runs from one await of the handler to the     *)
(* next in one step.                                                        *)

\* concurrency: int = 2, queue_manager.py:17
Concurrency == 2

Paths == {"p1", "p2"}
Priorities == {0, 1}

\* WorkItem, queue_manager.py:7-13
WorkItem(path, priority) == [path |-> path, priority |-> priority]
NoItem == WorkItem(None, 0)

\* WorkQueue.__init__, queue_manager.py:17-20, before process is called
NoQueue ==
    [queue |-> <<>>,        \* _queue: the entries waiting, in insertion order
     in_progress |-> {},    \* _in_progress
     workers |-> <<>>,      \* the worker tasks of process
     processed |-> 0,       \* processed
     pc |-> "idle",         \* process: idle, running (in gather), returned, raised
     result |-> 0,          \* what process returned
     adds |-> 0,            \* add calls so far
     completed |-> 0,       \* handler invocations that returned
     raised |-> 0]          \* handler invocations that raised

NoCall == [op |-> None]

\* no HashCache object has been constructed
NoCache == [cache |-> <<>>, built |-> FALSE, raised |-> FALSE]

\* faulty variant of WorkerCount: one worker more than configured
WorkerCountOff == Concurrency + 1

\* for _ in range(self._concurrency), queue_manager.py:46
WorkerCount == Concurrency

\* faulty variant of Smallest: the entry that was put first
Oldest(q) == {i \in 1..Len(q) : i = 1}

\* PriorityQueue.get_nowait, queue_manager.py:35: an entry (priority, item)
\* that no other entry is smaller than; WorkItem.__lt__ orders two items of
\* equal priority neither way, so which of them the heap returns depends on
\* its layout
Smallest(q) ==
    {i \in 1..Len(q) : \A j \in 1..Len(q) : q[i].priority <= q[j].priority}

Handling(w) == {k \in DOMAIN w.workers : w.workers[k].pc = "handling"}

\* WorkQueue.add, queue_manager.py:22-25
add(w, path, priority) ==
    IF path \notin w.in_progress
    THEN [w EXCEPT !.queue = Append(@, WorkItem(path, priority))]
    ELSE w

\* a worker at the top of its loop, queue_manager.py:33-40: QueueEmpty ends
\* it; otherwise it takes an entry, marks the path and awaits the handler
Loop(w, k) ==
    IF w.queue = <<>>
    THEN {[wq |-> [w EXCEPT !.workers[k] = [pc |-> "done", item |-> NoItem]],
           call |-> NoCall]}
    ELSE {[wq |-> [w EXCEPT !.queue = RemoveAt(@, i),
                            !.in_progress = @ \cup {w.queue[i].path},
                            !.workers[k] = [pc |-> "handling", item |-> w.queue[i]]],
           call |-> [op |-> "get", item |-> w.queue[i]]]
            : i \in Smallest(w.queue)}

\* add is called before process, or by a handler that is running
Add(path, priority) ==
    /\ wq.adds < MaxAdds
    /\ wq.pc = "idle" \/ Handling(wq) # {}
    /\ wq' = [add(wq, path, priority) EXCEPT !.adds = @ + 1]
    /\ call' = [op |-> "add", path |-> path, priority |-> priority,
                busy |-> \E k \in Handling(wq) : wq.workers[k].item.path = path]
    /\ UNCHANGED <<hc, codebases, seq, daemon, triggers, jobs, logs, running_scans,
                   tasks, conns, src, cacheFile, maps, response>>

\* WorkQueue.process up to its await, queue_manager.py:28-50
Process ==
    /\ wq.pc = "idle"
    /\ wq' = [wq EXCEPT !.pc = "running",
                        !.workers = [k \in 1..WorkerCount |->
                                        [pc |-> "created", item |-> NoItem]]]
    /\ call' = NoCall
    /\ UNCHANGED <<hc, codebases, seq, daemon, triggers, jobs, logs, running_scans,
                   tasks, conns, src, cacheFile, maps, response>>

\* a worker task takes its first step
WorkerStart(k) ==
    /\ k \in DOMAIN wq.workers
    /\ wq.workers[k].pc = "created"
    /\ \E c \in Loop(wq, k) : wq' = c.wq /\ call' = c.call
    /\ UNCHANGED <<hc, codebases, seq, daemon, triggers, jobs, logs, running_scans,
                   tasks, conns, src, cacheFile, maps, response>>

\* the handler returns, queue_manager.py:41-44, and the loop goes on
HandlerReturns(k) ==
    /\ k \in DOMAIN wq.workers
    /\ wq.workers[k].pc = "handling"
    /\ \E c \in Loop([wq EXCEPT !.processed = @ + 1,
                                !.completed = @ + 1,
                                !.in_progress = @ \ {wq.workers[k].item.path}], k) :
          wq' = c.wq /\ call' = c.call
    /\ UNCHANGED <<hc, codebases, seq, daemon, triggers, jobs, logs, running_scans,
                   tasks, conns, src, cacheFile, maps, response>>

\* the handler raises: the finally clause runs, queue_manager.py:42-44, and
\* the exception ends the worker task
HandlerRaises(k) ==
    /\ k \in DOMAIN wq.workers
    /\ wq.workers[k].pc = "handling"
    /\ wq' = [wq EXCEPT !.raised = @ + 1,
                        !.in_progress = @ \ {wq.workers[k].item.path},
                        !.workers[k] = [pc |-> "raised", item |-> NoItem]]
    /\ call' = NoCall
    /\ UNCHANGED <<hc, codebases, seq, daemon, triggers, jobs, logs, running_scans,
                   tasks, conns, src, cacheFile, maps, response>>

\* every worker task has ended without an exception: gather returns and
\* process returns processed, queue_manager.py:50-51
GatherReturns ==
    /\ wq.pc = "running"
    /\ \A k \in DOMAIN wq.workers : wq.workers[k].pc = "done"
    /\ wq' = [wq EXCEPT !.pc = "returned", !.result = wq.processed]
    /\ call' = NoCall
    /\ UNCHANGED <<hc, codebases, seq, daemon, triggers, jobs, logs, running_scans,
                   tasks, conns, src, cacheFile, maps, response>>

\* a worker task has ended with an exception: gather (return_exceptions is
\* False) raises it in process at once and leaves the other tasks running
GatherRaises ==
    /\ wq.pc = "running"
    /\ \E k \in DOMAIN wq.workers : wq.workers[k].pc = "raised"
    /\ wq' = [wq EXCEPT !.pc = "raised"]
    /\ call' = NoCall
    /\ UNCHANGED <<hc, codebases, seq, daemon, triggers, jobs, logs, running_scans,
                   tasks, conns, src, cacheFile, maps, response>>

-----------------------------------------------------------------------------
(* Initial states: Daemon.start over a store that holds codebase "a",      *)
(* registered at root r1 by an earlier scan command.                       *)

Registered ==
    {[id |-> 1, name |-> "a", path |-> "r1", schedule |-> Every(30, "m"),
      created_at |-> Now(0, 1), last_run |-> Null]}

\* Daemon.start, daemon.py:131-133: one trigger per persisted codebase
StartTriggers ==
    [n \in {cb.name : cb \in Registered} |->
        LET cb == CHOOSE c \in Registered : c.name = n
        IN  [codebase_id |-> cb.id, name |-> cb.name, path |-> cb.path,
             schedule |-> cb.schedule]]

\* no WorkQueue, HashCache or Scheduler call has been made
LibIdle ==
    /\ wq = NoQueue
    /\ hc = NoCache
    /\ call = NoCall

InitDaemon ==
    /\ codebases = Registered
    /\ seq = 1
    /\ daemon = [running |-> TRUE, shutdowns |-> 0, exited |-> FALSE, requests |-> 0,
                 in_flight |-> {}]
    /\ triggers = StartTriggers
    /\ jobs = <<>>
    /\ logs = <<>>
    /\ running_scans = {}
    /\ tasks = <<>>
    /\ conns = <<>>
    /\ response = NoResponse
    /\ LibIdle

\* Spec: r1 holds one source file with one symbol, r2 holds no source file
Init ==
    /\ InitDaemon
    /\ src = [r \in Roots |-> IF r = "r1" THEN <<SrcFile(1)>> ELSE <<OtherFile>>]
    /\ cacheFile = [r \in Roots |-> NoFile]
    /\ maps = [r \in Roots |-> <<>>]

\* room for one more coroutine within the bound
Room == Len(tasks) + Len(conns) < MaxTasks

Next ==
    \/ \E name \in Names : Room /\ RunDispatch(name)
    \/ \E i \in 1..MaxTasks : CmdRun(i)
    \/ \E path \in Roots : Room /\ CmdRunOnce(path)
    \/ \E name \in Names : Room /\ TriggerFire(name)
    \/ \E t \in 1..MaxTasks : Step(t)

Spec == Init /\ [][Next]_vars

-----------------------------------------------------------------------------
(* Store calls that raise (the database is locked, the disk is full): the  *)
(* call has no effect on the tables and the exception reaches the          *)
(* enclosing handler of run_scan.                                          *)

\* a store call of the scan body outside the per-file try raises:
\* except Exception, daemon.py:108-109
StoreRaisesInBody(t) ==
    LET me == tasks[t] IN
    /\ t \in TaskIds
    /\ me.pc \in {"create_job", "log_start", "log_warn", "gate_update", "log_found",
                  "log_file_err", "complete_update", "log_completed"}
    /\ tasks' = Put(t, [me EXCEPT !.pc = "fail_update", !.err = "store",
                                  !.calls = @ + 1])
    /\ response' = NoResponse
    /\ UNCHANGED <<lib, seq, daemon, conns, codebases, triggers, jobs, logs, running_scans, src,
                   cacheFile, maps>>

\* add_log inside the per-file try raises (daemon.py:86, 93): the per-file
\* handler, daemon.py:102-103
StoreRaisesInFile(t) ==
    LET me == tasks[t] IN
    /\ t \in TaskIds
    /\ me.pc \in {"log_processing", "log_llm_err"}
    /\ tasks' = Put(t, [me EXCEPT !.pc = "log_file_err", !.err = "store",
                                  !.calls = @ + 1, !.files_raised = @ + 1])
    /\ response' = NoResponse
    /\ UNCHANGED <<lib, seq, daemon, conns, codebases, triggers, jobs, logs, running_scans, src,
                   cacheFile, maps>>

\* a store call of the failure handler raises (daemon.py:109-110): the
\* finally clause runs and the exception leaves run_scan
StoreRaisesInHandler(t) ==
    LET me == tasks[t] IN
    /\ t \in TaskIds
    /\ me.pc \in {"fail_update", "log_failed"}
    /\ running_scans' = Release(me.name)
    /\ tasks' = Put(t, Left([me EXCEPT !.calls = @ + 1], "raised", None))
    /\ response' = NoResponse
    /\ UNCHANGED <<lib, seq, daemon, conns, codebases, triggers, jobs, logs, src, cacheFile, maps>>

StoreRaises(t) ==
    \/ StoreRaisesInBody(t)
    \/ StoreRaisesInFile(t)
    \/ StoreRaisesInHandler(t)

\* room for one more coroutine within the bound, once every earlier one
\* has left run_scan: under SpecFault scans follow one another
RoomFault ==
    /\ Len(tasks) < MaxFaultTasks
    /\ conns = <<>>
    /\ \A t \in TaskIds : tasks[t].pc \in Done

NextFault ==
    \/ \E name \in Names : RoomFault /\ TriggerFire(name)
    \/ \E t \in 1..MaxFaultTasks : Step(t)
    \/ \E t \in 1..MaxFaultTasks : StoreRaises(t)

\* scheduled scans, one at a time, over a store whose calls may raise
SpecFault == Init /\ [][NextFault]_vars

-----------------------------------------------------------------------------
(* One scan in detail: any tree within the bounds under r1, and a cache    *)
(* file left by an earlier scan of it.                                     *)

\* the symbols of source entry e that an earlier scan summarized: the
\* first k of them
Prior(tree, k) ==
    {<<e, i>> \in (1..Len(tree)) \X (1..MaxSyms) :
        Qualifies(tree[e]) /\ i <= Len(tree[e].syms) /\ i <= k}

\* the text a symbol had when the earlier scan summarized it, where it has
\* been edited since: a text no symbol has now
OldCode(code) == code + MaxSyms

\* the cache the earlier scan saved; with stale, the first symbol of each
\* file has been edited since
PriorCache(tree, k, stale) ==
    [id \in {SymbolId(x[1], tree[x[1]].syms[x[2]]) : x \in Prior(tree, k)} |->
        [hash |-> compute_hash(IF stale /\ id[2] = 1
                               THEN OldCode(tree[id[1]].syms[id[2]].code)
                               ELSE tree[id[1]].syms[id[2]].code),
         timestamp |-> 0]]

PriorMaps(tree, k) ==
    [e \in {x[1] : x \in Prior(tree, k)} |->
        [i \in 1..(IF Len(tree[e].syms) < k THEN Len(tree[e].syms) ELSE k) |->
            tree[e].syms[i].name]]

InitScan ==
    /\ InitDaemon
    /\ \E tree \in Trees, k \in 0..MaxSyms, stale \in BOOLEAN :
         /\ src = [r \in Roots |-> IF r = "r1" THEN tree ELSE <<>>]
         /\ cacheFile = [r \in Roots |->
                           IF r = "r1" /\ Prior(tree, k) # {}
                           THEN JsonText(dumps(PriorCache(tree, k, stale)))
                           ELSE NoFile]
         /\ maps = [r \in Roots |-> IF r = "r1" THEN PriorMaps(tree, k) ELSE <<>>]

\* no coroutine has been created yet
Idle == tasks = <<>> /\ conns = <<>>

NextScan ==
    \/ \E name \in Names : Idle /\ RunDispatch(name)
    \/ \E i \in 1..MaxTasks : CmdRun(i)
    \/ \E t \in 1..MaxTasks : Step(t)

\* one scan of codebase "a", started by a run command, over a store whose
\* calls do not raise
SpecScan == InitScan /\ [][NextScan]_vars

-----------------------------------------------------------------------------
(* The daemon's commands that change state: the registry, stop, and scans  *)
(* of trees that hold no source file, over a store whose calls do not      *)
(* raise.                                                                  *)

\* the scan requests clients send: "a" again with another path and
\* schedule, "a" with a string that is no schedule, "b" with a cron string
\* that from_crontab accepts, and with one it rejects
ScanRequests ==
    {[name |-> "a", path |-> "r2", schedule |-> Every(2, "h")],
     [name |-> "a", path |-> "r1", schedule |-> Text],
     [name |-> "b", path |-> "r2", schedule |-> CronGood],
     [name |-> "b", path |-> "r2", schedule |-> CronBad]}

InitCmd ==
    /\ InitDaemon
    /\ src = [r \in Roots |-> <<OtherFile>>]
    /\ cacheFile = [r \in Roots |-> NoFile]
    /\ maps = [r \in Roots |-> <<>>]

\* the steps of a scan that finds no source file
StepNoSource(t) ==
    \/ Start(t)
    \/ CreateJob(t)
    \/ LogStart(t)
    \/ LogWarn(t)
    \/ GateUpdate(t)
    \/ LogFound(t)
    \/ CompleteUpdate(t)
    \/ LogCompleted(t)
    \/ FailUpdate(t)
    \/ LogFailed(t)

CmdRoom == daemon.requests < MaxCmds

TaskRoom == Serving /\ Len(tasks) < MaxCmdTasks

NextCmd ==
    \/ \E req \in ScanRequests :
          CmdRoom /\ ScanDispatch(req.name, req.path, req.schedule)
    \/ \E i \in 1..MaxCmds : ScanDb(i)
    \/ \E i \in 1..MaxCmds : ScanResume(i)
    \/ \E name \in Names : CmdRoom /\ RemoveDispatch(name)
    \/ \E i \in 1..MaxCmds : RemoveDb(i)
    \/ \E i \in 1..MaxCmds : RemoveResume(i)
    \/ CmdRoom /\ StopCmd
    \/ Shutdown
    \/ Exit
    \/ \E path \in Roots : TaskRoom /\ CmdRunOnce(path)
    \/ \E name \in Names : TaskRoom /\ TriggerFire(name)
    \/ \E t \in 1..MaxCmdTasks : StepNoSource(t)

SpecCmd == InitCmd /\ [][NextCmd]_vars

-----------------------------------------------------------------------------
(* The commands that only read, next to a registry command and a scan.     *)

\* the scan, remove and stop requests of SpecQuery come one after the other
QueryRoom == daemon.requests < MaxQueryCmds /\ conns = <<>>

\* the triggers of SpecQuery fire one scan after the other, between requests
QueryTaskRoom ==
    TaskRoom /\ conns = <<>> /\ \A t \in TaskIds : tasks[t].pc \in Done

NextQuery ==
    \/ Ping
    \/ List
    \/ Ps
    \/ Jobs
    \/ \E name \in Names : Logs(name)
    \/ Unknown
    \/ Undecodable
    \/ \E req \in ScanRequests :
          QueryRoom /\ ScanDispatch(req.name, req.path, req.schedule)
    \/ \E i \in 1..MaxQueryCmds : ScanDb(i)
    \/ \E i \in 1..MaxQueryCmds : ScanResume(i)
    \/ \E name \in Names : QueryRoom /\ RemoveDispatch(name)
    \/ \E i \in 1..MaxQueryCmds : RemoveDb(i)
    \/ \E i \in 1..MaxQueryCmds : RemoveResume(i)
    \/ QueryRoom /\ StopCmd
    \/ Shutdown
    \/ Exit
    \/ \E name \in Names : QueryTaskRoom /\ TriggerFire(name)
    \/ \E t \in 1..MaxCmdTasks : StepNoSource(t)

SpecQuery == InitCmd /\ [][NextQuery]_vars

-----------------------------------------------------------------------------
(* The WorkQueue on its own *)

InitQueue ==
    /\ InitDaemon
    /\ src = [r \in Roots |-> <<OtherFile>>]
    /\ cacheFile = [r \in Roots |-> NoFile]
    /\ maps = [r \in Roots |-> <<>>]

NextQueue ==
    \/ \E path \in Paths, priority \in Priorities : Add(path, priority)
    \/ Process
    \/ \E k \in 1..WorkerCount : WorkerStart(k)
    \/ \E k \in 1..WorkerCount : HandlerReturns(k)
    \/ \E k \in 1..WorkerCount : HandlerRaises(k)
    \/ GatherReturns
    \/ GatherRaises

\* one WorkQueue, one call of process, handlers that add paths and may raise
SpecQueue == InitQueue /\ [][NextQueue]_vars

-----------------------------------------------------------------------------
(* The Scheduler on its own *)

\* the largest small count in a schedule string of the menu
MaxCount == 2

\* schedule strings handed to parse_interval and add_job: "every <n><unit>"
\* with the four units and with a unit the pattern does not know, the
\* counts of the documentation, a count beyond the range of timedelta, cron
\* strings and other text
ScheduleMenu ==
    {Every(n, u) : n \in (0..MaxCount) \cup {30}, u \in {"s", "m", "h", "d", "w"}}
        \cup {Every(MaxTimedeltaDays + 1, "d")}
        \cup {CronGood, CronBad, Text}

\* parse_interval(spec) called directly
ParseInterval(spec) ==
    /\ call' = [op |-> "parse_interval", spec |-> spec, name |-> None,
                out |-> IF parse_interval_raises(spec) THEN {}
                        ELSE parse_interval(spec),
                result |-> IF parse_interval_raises(spec) THEN "raise"
                           ELSE "value",
                before |-> triggers]
    /\ UNCHANGED <<wq, hc, codebases, seq, daemon, triggers, jobs, logs,
                   running_scans, tasks, conns, src, cacheFile, maps, response>>

\* Scheduler.add_job(job_id, schedule, func)
AddJob(name, schedule) ==
    LET outcome == add_job_outcome(schedule) IN
    /\ triggers' =
         IF outcome = "ok"
         THEN add_job(triggers, name, [codebase_id |-> 0, name |-> name,
                                       path |-> "r1", schedule |-> schedule])
         ELSE triggers
    /\ call' = [op |-> "add_job", spec |-> schedule, name |-> name,
                out |-> {},
                result |-> CASE outcome = "ok" -> "true"
                             [] outcome = "false" -> "false"
                             [] outcome = "raise" -> "raise",
                before |-> triggers]
    /\ UNCHANGED <<wq, hc, codebases, seq, daemon, jobs, logs, running_scans,
                   tasks, conns, src, cacheFile, maps, response>>

\* Scheduler.remove_job(job_id)
RemoveJob(name) ==
    /\ triggers' = remove_job(triggers, name)
    /\ call' = [op |-> "remove_job", spec |-> Text, name |-> name,
                out |-> {},
                result |-> IF name \in DOMAIN triggers THEN "true" ELSE "false",
                before |-> triggers]
    /\ UNCHANGED <<wq, hc, codebases, seq, daemon, jobs, logs, running_scans,
                   tasks, conns, src, cacheFile, maps, response>>

InitSched == InitQueue

NextSched ==
    \/ \E spec \in ScheduleMenu : ParseInterval(spec)
    \/ \E name \in Names, schedule \in ScheduleMenu : AddJob(name, schedule)
    \/ \E name \in Names : RemoveJob(name)

\* one Scheduler, with parse_interval, add_job and remove_job called in any
\* order
SpecSched == InitSched /\ [][NextSched]_vars

-----------------------------------------------------------------------------
(* The HashCache on its own *)

\* the largest timestamp handed to update
MaxStamp == 2

CacheIds == {"f1::g", "f2::g"}
CacheHashes == {compute_hash(1), compute_hash(2)}
Stamps == 1..MaxStamp

\* HashCache.remove
remove(cache, symbol_id) == [k \in DOMAIN cache \ {symbol_id} |-> cache[k]]

CacheCall(op, id, hash, out) ==
    [op |-> op, id |-> id, hash |-> hash, out |-> out,
     after |-> call.op, saved |-> <<>>]

\* HashCache(root): _load reads the file; the object replaces the one of the
\* model
Construct ==
    /\ hc' = IF load_raises(cacheFile["r1"])
             THEN [cache |-> <<>>, built |-> FALSE, raised |-> TRUE]
             ELSE [cache |-> load(cacheFile, "r1"), built |-> TRUE,
                   raised |-> FALSE]
    /\ call' = [CacheCall("construct", None, 0, FALSE) EXCEPT
                  !.saved = IF call.op = "save" THEN call.saved ELSE <<>>]
    /\ UNCHANGED <<wq, codebases, seq, daemon, triggers, jobs, logs,
                   running_scans, tasks, conns, src, cacheFile, maps, response>>

\* HashCache.update(symbol_id, code_hash, timestamp)
Update(id, h, t) ==
    /\ hc.built
    /\ hc' = [hc EXCEPT !.cache = update(hc.cache, id, h, t)]
    /\ call' = CacheCall("update", id, h, FALSE)
    /\ UNCHANGED <<wq, codebases, seq, daemon, triggers, jobs, logs,
                   running_scans, tasks, conns, src, cacheFile, maps, response>>

\* HashCache.remove(symbol_id)
Remove(id) ==
    /\ hc.built
    /\ hc' = [hc EXCEPT !.cache = remove(hc.cache, id)]
    /\ call' = CacheCall("remove", id, 0, FALSE)
    /\ UNCHANGED <<wq, codebases, seq, daemon, triggers, jobs, logs,
                   running_scans, tasks, conns, src, cacheFile, maps, response>>

\* HashCache.is_changed(symbol_id, current_hash)
IsChanged(id, h) ==
    /\ hc.built
    /\ call' = CacheCall("is_changed", id, h, is_changed(hc.cache, id, h))
    /\ UNCHANGED <<wq, hc, codebases, seq, daemon, triggers, jobs, logs,
                   running_scans, tasks, conns, src, cacheFile, maps, response>>

\* HashCache.save()
Save ==
    /\ hc.built
    /\ cacheFile' = save(cacheFile, "r1", hc.cache)
    /\ call' = [CacheCall("save", None, 0, FALSE) EXCEPT !.saved = hc.cache]
    /\ UNCHANGED <<wq, hc, codebases, seq, daemon, triggers, jobs, logs,
                   running_scans, tasks, conns, src, maps, response>>

\* the file is deleted, truncated, made unreadable or overwritten with bytes
\* that are not text
Damage(file) ==
    /\ cacheFile["r1"] # file
    /\ cacheFile' = [cacheFile EXCEPT !["r1"] = file]
    /\ call' = CacheCall("damage", None, 0, FALSE)
    /\ UNCHANGED <<wq, hc, codebases, seq, daemon, triggers, jobs, logs,
                   running_scans, tasks, conns, src, maps, response>>

InitCache == InitQueue

NextCache ==
    \/ Construct
    \/ \E id \in CacheIds, h \in CacheHashes, t \in Stamps : Update(id, h, t)
    \/ \E id \in CacheIds : Remove(id)
    \/ \E id \in CacheIds, h \in CacheHashes : IsChanged(id, h)
    \/ Save
    \/ \E file \in {NoFile, Garbled, Unreadable, BadBytes} : Damage(file)

\* one cache file and the HashCache objects built on it
SpecCache == InitCache /\ [][NextCache]_vars

-----------------------------------------------------------------------------
(* One directory registered under two names: the scans of "a" and "b" run   *)
(* over the same root r1 and share its cache file and its artifacts.        *)

RegisteredTwice ==
    Registered \cup
    {[id |-> 2, name |-> "b", path |-> "r1", schedule |-> Every(2, "h"),
      created_at |-> Now(0, 2), last_run |-> Null]}

InitShared ==
    /\ codebases = RegisteredTwice
    /\ seq = 2
    /\ daemon = [running |-> TRUE, shutdowns |-> 0, exited |-> FALSE, requests |-> 0,
                 in_flight |-> {}]
    /\ triggers = [n \in {cb.name : cb \in RegisteredTwice} |->
                     LET cb == CHOOSE c \in RegisteredTwice : c.name = n
                     IN  [codebase_id |-> cb.id, name |-> cb.name, path |-> cb.path,
                          schedule |-> cb.schedule]]
    /\ jobs = <<>>
    /\ logs = <<>>
    /\ running_scans = {}
    /\ tasks = <<>>
    /\ conns = <<>>
    /\ response = NoResponse
    /\ LibIdle
    /\ src = [r \in Roots |-> IF r = "r1" THEN <<SrcFile(1)>> ELSE <<OtherFile>>]
    /\ cacheFile = [r \in Roots |-> NoFile]
    /\ maps = [r \in Roots |-> <<>>]

NextShared ==
    \/ \E name \in Names : Room /\ TriggerFire(name)
    \/ \E path \in Roots : Room /\ CmdRunOnce(path)
    \/ \E t \in 1..MaxTasks : Step(t)

\* concurrent scans of one root under two names, over a store whose calls
\* do not raise
SpecShared == InitShared /\ [][NextShared]_vars

-----------------------------------------------------------------------------
(* The process dies (SIGKILL, power loss) during a scan.                    *)

\* The process dies while scan t is inside the file loop.  With torn it
\* dies inside cache.save() for the current file: the Summarizer call for
\* the file's last symbol has returned, the artifact is written, and
\* Path.write_text (cache.py:26) has opened the cache file, which truncates
\* it, but has not written the text yet.  Otherwise it dies at an await and
\* the files are as the last completed step left them.
Kill(t, torn) ==
    LET me == tasks[t]
        sym == CurSyms(me)[me.si]
        summarized ==
            [me EXCEPT !.file_summaries = Append(@, sym.name),
                       !.cache = update(@, SymbolId(CurEntry(me), sym),
                                        compute_hash(sym.code), me.job_id),
                       !.symbols_processed = @ + 1,
                       !.llm_ok = @ + 1,
                       !.files_processed = @ + 1]
    IN
    /\ t \in TaskIds
    /\ me.pc \in {"log_processing", "summarize", "log_llm_err"}
    /\ IF torn
       THEN /\ me.pc = "summarize"
            /\ me.si = Len(CurSyms(me))
            /\ tasks' = Put(t, [summarized EXCEPT !.pc = "killed"])
            /\ maps' = [maps EXCEPT ![me.path] =
                          write_map(@, CurEntry(me), summarized.file_summaries)]
            /\ cacheFile' = [cacheFile EXCEPT ![me.path] = Garbled]
       ELSE /\ tasks' = Put(t, [me EXCEPT !.pc = "killed"])
            /\ UNCHANGED <<maps, cacheFile>>
    /\ daemon' = [daemon EXCEPT !.running = FALSE, !.exited = TRUE]
    /\ response' = NoResponse
    /\ UNCHANGED <<lib, seq, conns, codebases, triggers, jobs, logs,
                   running_scans, src>>

NextKill ==
    \/ NextScan
    \/ \E t \in 1..MaxTasks, torn \in BOOLEAN : Kill(t, torn)

\* one scan, as in SpecScan, during which the process may die
SpecKill == InitScan /\ [][NextKill]_vars

-----------------------------------------------------------------------------
(* The scheduled scan of codebase "a" run again after it has finished, the  *)
(* source files left as they are.                                           *)

\* the number of scans that follow one another
MaxRescans == 2

\* a source file that holds two symbols of one name with different code
\* (overloads, a method of the same name in two classes, a redefinition)
DupFile == [suffix |-> "py", ignored |-> FALSE,
            syms |-> <<[name |-> 1, code |-> 1], [name |-> 1, code |-> 2]>>]

RescanTrees ==
    {<<SrcFile(k)>> : k \in 1..MaxSyms} \cup {<<DupFile>>, <<SrcFile(1), DupFile>>}

InitRescan ==
    /\ InitDaemon
    /\ \E tree \in RescanTrees :
         src = [r \in Roots |-> IF r = "r1" THEN tree ELSE <<>>]
    /\ cacheFile = [r \in Roots |-> NoFile]
    /\ maps = [r \in Roots |-> <<>>]

\* the trigger fires again once the scan before has left run_scan
RescanRoom ==
    /\ Len(tasks) < MaxRescans
    /\ \A t \in TaskIds : tasks[t].pc \in Done

NextRescan ==
    \/ RescanRoom /\ TriggerFire("a")
    \/ \E t \in 1..MaxRescans : Step(t)

\* scans of codebase "a" one after the other, over a store whose calls do
\* not raise
SpecRescan == InitRescan /\ [][NextRescan]_vars

-----------------------------------------------------------------------------
(* The daemon is started again after it has exited.                         *)

\* `serve` after the process has exited, main.py:92-95 and Daemon.start,
\* daemon.py:127-142: a new Scheduler and a new in-flight set;
\* _register_scheduled_job for every row of get_codebases.  A schedule for
\* which Scheduler.add_job raises ends Daemon.start, and with it the
\* process, before the socket is opened; a schedule for which it returns
\* False is skipped.  response records how the serve command went.
Restart ==
    LET raises == \E row \in codebases : add_job_outcome(row.schedule) = "raise"
        accepted == {row \in codebases : add_job_outcome(row.schedule) = "ok"}
    IN
    /\ daemon.exited
    /\ response.cmd # "serve"
    /\ running_scans' = {}
    /\ IF raises
       THEN /\ triggers' = <<>>
            /\ daemon' = [daemon EXCEPT !.in_flight = {}]
            /\ response' = Reply("serve", None, FALSE, "Daemon.start raised")
       ELSE /\ triggers' =
                 [n \in {row.name : row \in accepted} |->
                     LET row == CHOOSE r \in accepted : r.name = n
                     IN  [codebase_id |-> row.id, name |-> row.name,
                          path |-> row.path, schedule |-> row.schedule]]
            /\ daemon' = [daemon EXCEPT !.running = TRUE, !.exited = FALSE,
                                        !.shutdowns = 0, !.in_flight = {}]
            /\ response' = Reply("serve", None, TRUE, "daemon starting")
    /\ UNCHANGED <<lib, codebases, seq, jobs, logs, tasks, conns, src,
                   cacheFile, maps>>

NextRestart ==
    \/ NextCmd
    \/ Restart

\* the commands of SpecCmd, and the daemon started again after a stop
SpecRestart == InitCmd /\ [][NextRestart]_vars

-----------------------------------------------------------------------------
(* Properties *)

JobOf(t) == jobs[tasks[t].job_id]
LogsOf(t) == IF tasks[t].job_id \in DOMAIN logs THEN logs[tasks[t].job_id] ELSE <<>>
Logged(t, message, level) ==
    \E i \in 1..Len(LogsOf(t)) :
        LogsOf(t)[i] = [message |-> message, level |-> level]
HasJob(t) == tasks[t].job_id \in DOMAIN jobs

\* the entries of a tree that pass the suffix and ignore filters of
\* discovery, daemon.py:60-63
SourceEntries(tree) ==
    {e \in 1..Len(tree) : tree[e].suffix \in extensions /\ ~tree[e].ignored}

\* C1: across any interleaving of run, run_once and trigger fires, at most
\* one run_scan per codebase name is past admission at any instant, and the
\* store never holds two running Job rows for the same codebase name.
C1_SingleFlight ==
    /\ \A t \in InFlight, u \in InFlight :
          t # u => tasks[t].name # tasks[u].name
    /\ \A j \in get_running_jobs, k \in get_running_jobs :
          j # k => jobs[j].codebase_name # jobs[k].codebase_name

\* C2: a run answered ok=true while the scan an earlier ok=true run for the
\* same name started has not finished does not happen (the second is
\* answered ok=false); equivalently every run answered ok=true starts a
\* scan that passes admission and creates a Job row.
C2_RunOkStartsScan ==
    /\ (response.cmd = "run" /\ response.ok) =>
          ~\E t \in 1..(Len(tasks) - 1) :
              /\ tasks[t].origin = "run"
              /\ tasks[t].name = response.arg
              /\ tasks[t].pc \notin Done
    /\ \A t \in TaskIds :
          (tasks[t].origin = "run" /\ tasks[t].pc # "created") => tasks[t].job_id # 0

\* C3: every run_scan that passed admission has removed its name from the
\* in-flight set when it has returned or raised, on every exit path, so the
\* in-flight set holds exactly the names of the calls still inside run_scan
\* and a later call for a finished name is admitted.
C3_MarkerReleased ==
    /\ running_scans = {tasks[t].name : t \in InFlight}
    /\ \A t \in TaskIds :
          (tasks[t].pc \in Done /\ tasks[t].job_id # 0) =>
              \/ Admitted(tasks[t].name)
              \/ \E u \in InFlight : tasks[u].name = tasks[t].name

\* the failure handler's own update_job raised: the call left run_scan by
\* an exception, its Job row is still running, and a later call for the
\* name has passed admission
C3_Witness ==
    \E t \in TaskIds, u \in TaskIds :
        /\ tasks[t].pc = "raised"
        /\ tasks[t].err # None
        /\ HasJob(t) /\ JobOf(t).status = RUNNING
        /\ t < u
        /\ tasks[u].name = tasks[t].name
        /\ tasks[u].job_id # 0

\* C4: a run_scan call for a name that is in the in-flight set returns
\* (0, 0) in its first step, makes no store call, adds no Job row and no
\* log row, and leaves the in-flight set as it was.
C4_RejectedCallIsInert ==
    [][\A t \in 1..MaxTasks :
          (/\ t \in TaskIds
           /\ tasks[t].pc = "created"
           /\ tasks[t].name \in running_scans
           /\ tasks'[t] # tasks[t])
          => /\ tasks'[t].pc = "returned"
             /\ tasks'[t].result = <<0, 0>>
             /\ tasks'[t].calls = 0
             /\ jobs' = jobs
             /\ logs' = logs
             /\ running_scans' = running_scans]_vars

\* a call was turned away and the scan that owns the marker is still in
\* flight with the marker set
C4_Witness ==
    \E t \in TaskIds, u \in InFlight :
        /\ tasks[t].pc = "returned" /\ tasks[t].job_id = 0
        /\ tasks[t].result = <<0, 0>>
        /\ tasks[u].name = tasks[t].name
        /\ tasks[u].name \in running_scans

\* C5: a Job row is created running and changes once, to completed or
\* failed; a row that is terminal is never written again, store calls
\* raising or not.
C5_TerminalJobFrozen ==
    [][/\ \A j \in DOMAIN jobs' \ DOMAIN jobs : jobs'[j].status = RUNNING
       /\ \A j \in DOMAIN jobs :
             /\ j \in DOMAIN jobs'
             /\ jobs[j].status \in Terminal => jobs'[j] = jobs[j]
             /\ jobs'[j].status # jobs[j].status => jobs'[j].status \in Terminal]_vars

\* C6: when the availability probe answers false, the scan enumerates no
\* file, makes no Parser and no Summarizer call, logs a warning, ends its
\* Job failed with a non-empty error and zero counts, and returns (0, 0).
C6_UnavailableGate ==
    \A t \in TaskIds :
        tasks[t].probe = "down" =>
            /\ tasks[t].pc \in {"log_warn", "gate_update", "returned"}
            /\ ~tasks[t].enumerated
            /\ tasks[t].parser_calls = 0
            /\ tasks[t].llm_calls = 0
            /\ tasks[t].pc = "returned" =>
                  /\ tasks[t].result = <<0, 0>>
                  /\ JobOf(t).status = FAILED
                  /\ JobOf(t).error \notin {None, ""}
                  /\ JobOf(t).files_processed = 0
                  /\ JobOf(t).symbols_processed = 0
                  /\ \E i \in 1..Len(LogsOf(t)) : LogsOf(t)[i].level = "warn"

\* the probe answered false for a scan of a tree that holds source files,
\* and the scan has returned
C6_Witness ==
    \E t \in TaskIds :
        /\ tasks[t].probe = "down"
        /\ tasks[t].pc = "returned"
        /\ SourceEntries(src[tasks[t].path]) # {}

\* C7: an exception that escapes the scan body (not a per-symbol or
\* per-file failure) of a scan whose Job row exists ends the Job failed with
\* the exception's message as its error and an error-level log line; the
\* Job is neither completed nor running when run_scan is left.
C7_EscapedExceptionFailsJob ==
    \A t \in TaskIds :
        (tasks[t].pc \in Done /\ tasks[t].err # None /\ HasJob(t)) =>
            /\ JobOf(t).status = FAILED
            /\ JobOf(t).error = tasks[t].err
            /\ Logged(t, <<"Failed", tasks[t].err>>, "error")

\* C8: a Summarizer failure for one symbol is logged at error level and
\* aborts nothing: the later symbols of the file are still examined, every
\* source file is still opened, the failed symbol's cache entry is not
\* updated (it has none, or the one of the earlier scan) and it is not
\* counted, and the Job ends completed.
C8_SymbolFailureIsLocal ==
    \A t \in TaskIds :
        (tasks[t].pc = "returned" /\ tasks[t].llm_failed # {}) =>
            LET me == tasks[t]
                tree == src[me.path]
            IN  /\ JobOf(t).status = COMPLETED
                /\ \A x \in me.llm_failed :
                      /\ \A k \in 1..Len(tree[x[1]].syms) :
                            k > x[2] => <<x[1], k>> \in me.visited
                      /\ LET id == SymbolId(x[1], tree[x[1]].syms[x[2]])
                             saved == load(cacheFile, me.path)
                         IN  id \in DOMAIN saved =>
                               /\ saved[id].hash # compute_hash(tree[x[1]].syms[x[2]].code)
                               /\ saved[id].timestamp # me.job_id
                      /\ Logged(t, <<"LLM error", x>>, "error")
                /\ SourceEntries(tree) \subseteq me.opened
                /\ JobOf(t).symbols_processed = me.llm_ok
                /\ me.llm_ok + Cardinality(me.llm_failed) = me.llm_calls

\* the first symbol of a two-symbol file failed, the second was summarized,
\* a later file was opened, and the Job ended completed
C8_Witness ==
    \E t \in TaskIds :
        LET me == tasks[t]
            tree == src[me.path]
        IN  /\ me.pc = "returned"
            /\ JobOf(t).status = COMPLETED
            /\ \E e \in SourceEntries(tree) :
                  /\ <<e, 1>> \in me.llm_failed
                  /\ Len(tree[e].syms) >= 2
                  /\ <<e, 2>> \notin me.llm_failed
                  /\ \E e2 \in me.opened : e2 > e
            /\ JobOf(t).symbols_processed >= 1

\* C9: an exception while processing one file (read, parse, artifact write
\* or cache save) is logged at error level, the scan goes on and ends
\* completed, and the Job's files_processed is the number of discovered
\* files whose processing finished without raising.
C9_FilesProcessedCountsCleanFiles ==
    \A t \in TaskIds :
        (tasks[t].pc = "returned" /\ tasks[t].found >= 0) =>
            /\ JobOf(t).status = COMPLETED
            /\ JobOf(t).files_processed = tasks[t].files_ok
            /\ tasks[t].files_ok + tasks[t].files_raised = tasks[t].found
            /\ Cardinality({i \in 1..Len(LogsOf(t)) :
                               /\ LogsOf(t)[i].level = "error"
                               /\ LogsOf(t)[i].message[1] = "Error processing"})
                  = tasks[t].files_raised

\* C10: with the Summarizer available, a scan of a tree without any
\* qualifying source file ends with the Job completed, files_processed = 0
\* and symbols_processed = 0, and run_scan returns (0, 0).
C10_EmptyScanCompletes ==
    \A t \in TaskIds :
        (/\ tasks[t].pc \in Done
         /\ tasks[t].probe = "up"
         /\ tasks[t].found # -1
         /\ SourceEntries(src[tasks[t].path]) = {}) =>
            /\ tasks[t].pc = "returned"
            /\ tasks[t].result = <<0, 0>>
            /\ JobOf(t).status = COMPLETED
            /\ JobOf(t).files_processed = 0
            /\ JobOf(t).symbols_processed = 0
            /\ JobOf(t).error = None

\* a scan of a tree that holds only non-qualifying files has returned
C10_Witness ==
    \E t \in TaskIds :
        /\ tasks[t].pc = "returned"
        /\ tasks[t].probe = "up"
        /\ tasks[t].found = 0
        /\ Len(src[tasks[t].path]) > 0
        /\ JobOf(t).status = COMPLETED

\* the rows a list command shows, daemon.py:202-207
Registry(name) == {cb \in codebases : cb.name = name}

\* C11: a scan command whose schedule is neither a valid interval nor a
\* valid cron expression is answered ok=false and changes nothing: no
\* schedule that is not valid ever reaches the codebases table.
C11_BadScheduleRejected ==
    /\ \A cb \in codebases : add_job_outcome(cb.schedule) = "ok"
    /\ (response.cmd = "scan" /\ add_job_outcome(response.arg.schedule) # "ok")
          => (response.written /\ ~response.ok)

\* C12: when a scan command that re-registers a name has been answered and
\* no other handler is in progress, the table holds exactly one row for the
\* name, with the request's path and schedule, and the trigger of that name
\* scans that path under that schedule.
C12_ReRegistrationReplaces ==
    (response.cmd = "scan" /\ response.written /\ conns = <<>>) =>
        LET req == response.arg IN
        /\ Cardinality(Registry(req.name)) = 1
        /\ \A cb \in Registry(req.name) :
              cb.path = req.path /\ cb.schedule = req.schedule
        /\ req.name \in DOMAIN triggers
        /\ triggers[req.name].path = req.path
        /\ triggers[req.name].schedule = req.schedule

\* C13: when a remove command has been answered ok=true and the name has not
\* been registered again (no row holds it), no trigger of that name exists;
\* a remove for a name that no row held, answered ok=false, has removed no
\* trigger.
C13_RemoveUnschedules ==
    (response.cmd = "remove") =>
        LET name == response.arg.name IN
        /\ (response.ok /\ Registry(name) = {}) => name \notin DOMAIN triggers
        /\ (~response.arg.known /\ ~response.ok) => ~response.arg.unscheduled

\* C14: no step deletes a Job row or a log row: every Job row stays and is
\* unchanged except by the one update that takes a running Job to completed
\* or failed, and every log list only grows at its end.
C14_HistoryAppendOnly ==
    [][/\ \A j \in DOMAIN jobs :
             /\ j \in DOMAIN jobs'
             /\ jobs'[j] # jobs[j] =>
                   (jobs[j].status = RUNNING /\ jobs'[j].status \in Terminal)
       /\ \A j \in DOMAIN logs :
             /\ j \in DOMAIN logs'
             /\ Len(logs'[j]) >= Len(logs[j])
             /\ SubSeq(logs'[j], 1, Len(logs[j])) = logs[j]]_vars

\* C15: no step of a run_once command or of the scan it starts changes the
\* codebases table or the trigger map, and the Job of that scan carries
\* codebase_id 0; so finishing the Job changes no last_run.
C15_RunOnceLeavesRegistry ==
    [][\A t \in DOMAIN tasks' :
          (/\ tasks'[t].origin = "run_once"
           /\ (t \in DOMAIN tasks => tasks'[t] # tasks[t])) =>
              /\ codebases' = codebases
              /\ triggers' = triggers
              /\ tasks'[t].job_id \in DOMAIN jobs' =>
                    jobs'[tasks'[t].job_id].codebase_id = 0]_vars

\* a run_once scan has ended its Job while a codebase of the same name is
\* registered
C15_Witness ==
    \E t \in TaskIds :
        /\ tasks[t].origin = "run_once"
        /\ tasks[t].pc = "returned"
        /\ HasJob(t)
        /\ JobOf(t).status \in Terminal
        /\ \E cb \in codebases : cb.name = tasks[t].name /\ cb.last_run = Null

\* C16: the step that takes the Job of a scan of a registered codebase to
\* completed or failed leaves the codebases row of that name, if there is
\* one, with last_run equal to the Job's end time, also when the name was
\* registered again while the scan ran.
C16_LastRunFollowsJob ==
    [][\A j \in DOMAIN jobs :
          (/\ j \in DOMAIN jobs'
           /\ jobs[j].codebase_id # 0
           /\ jobs[j].status = RUNNING
           /\ jobs'[j].status \in Terminal) =>
              \A cb \in codebases' :
                  cb.name = jobs'[j].codebase_name =>
                      cb.last_run = jobs'[j].finished_at]_vars

\* C17: every connection the server has read a request from and closed was
\* written one response before it was closed, whatever the request.
C17_EveryRequestAnswered ==
    response.cmd # None => response.written

\* C18: the running flag changes only from true to false and only in a step
\* of a _shutdown coroutine that a stop command created, and the server
\* stops serving only after the flag is false: no other command, request or
\* scan, failed or not, does either.
C18_OnlyStopClearsRunning ==
    [][/\ daemon'.running # daemon.running =>
             (daemon.running /\ daemon.shutdowns > 0)
       /\ daemon'.exited # daemon.exited =>
             (~daemon.running /\ daemon'.exited)]_vars

\* the server has stopped after a stop command, and a scan had raised
\* before
C18_Witness ==
    /\ daemon.exited
    /\ \E t \in TaskIds : tasks[t].pc = "raised"

\* C19: a stop command is answered ok=true and cancels no scan: every scan
\* that was in flight when stop was requested and has created its Job leaves
\* run_scan only with that Job completed or failed.
C19_StopSparesScans ==
    /\ response.cmd = "stop" => (response.written /\ response.ok)
    /\ \A t \in daemon.in_flight :
          (tasks[t].pc \in Done /\ HasJob(t)) => JobOf(t).status \in Terminal

\* C20: a ping, list, ps, jobs or logs command and an unknown command change
\* no row of the codebases, jobs and logs tables, no trigger and no member
\* of the in-flight set; an unknown command is answered ok=false.
C20_QueriesChangeNothing ==
    [][response'.cmd \in {"ping", "list", "ps", "jobs", "logs", "unknown"} =>
          /\ UNCHANGED <<lib, codebases, jobs, logs, triggers, running_scans>>
          /\ response'.written
          /\ response'.cmd = "unknown" => ~response'.ok]_vars

\* a logs command returned rows while a scan was in flight
C20_Witness ==
    /\ response.cmd = "logs"
    /\ response.data # <<>>
    /\ running_scans # {}

\* C21: while process runs, the handler invocations in progress are never
\* more than the configured concurrency.
C21_ConcurrencyBound ==
    Cardinality(Handling(wq)) <= Concurrency

\* as many handlers as the concurrency allows are running and an entry waits
C21_Witness ==
    /\ Cardinality(Handling(wq)) = Concurrency
    /\ wq.queue # <<>>

\* C22: when a worker takes an entry from the queue, no entry that is still
\* waiting has a strictly lower priority number than the one taken.
C22_LowestPriorityFirst ==
    call.op = "get" =>
        \A i \in 1..Len(wq.queue) : wq.queue[i].priority >= call.item.priority

\* a worker took an entry of priority 0 and left one of priority 1 waiting
C22_Witness ==
    /\ call.op = "get"
    /\ call.item.priority = 0
    /\ \E i \in 1..Len(wq.queue) : wq.queue[i].priority = 1

\* C23: a call add(path) leaves the queue as it is when a handler for that
\* path is running, and appends exactly one entry for the path otherwise.
C23_AddSuppressesRunningPath ==
    [][call'.op = "add" =>
          IF call'.busy
          THEN wq'.queue = wq.queue
          ELSE wq'.queue = Append(wq.queue, WorkItem(call'.path, call'.priority))]_vars

\* C24: when process has ended, it has returned a count, the queue is empty,
\* no handler is running, and the count is the number of handler invocations
\* that ended without raising, those for entries added by handlers included.
C24_ProcessDrains ==
    wq.pc \in {"returned", "raised"} =>
        /\ wq.pc = "returned"
        /\ wq.queue = <<>>
        /\ Handling(wq) = {}
        /\ wq.result = wq.completed

\* C25: parse_interval gives N times the unit's seconds (s 1, m 60, h 3600,
\* d 86400; 1800 for every 30m, 7200 for every 2h) for every string
\* every <N><unit> and nothing for any other string, and add_job of a string
\* that is neither such an interval nor a five-field cron string returns
\* False and leaves the triggers as they were.
C25_IntervalSeconds ==
    /\ call.op = "parse_interval" =>
         IF call.spec.kind = "every" /\ call.spec.unit \in {"s", "m", "h", "d"}
         THEN /\ call.result = "value"
              /\ call.out = {call.spec.n *
                               [s |-> 1, m |-> 60, h |-> 3600, d |-> 86400][call.spec.unit]}
              /\ call.spec = Every(30, "m") => call.out = {1800}
              /\ call.spec = Every(2, "h") => call.out = {7200}
         ELSE call.result = "value" /\ call.out = {}
    /\ /\ call.op = "add_job"
       /\ call.spec.kind # "cron"
       /\ ~(call.spec.kind = "every" /\ call.spec.unit \in {"s", "m", "h", "d"})
       => call.result = "false" /\ triggers = call.before

\* C26: is_changed(id, h) is true exactly when id has no entry or its entry
\* holds another hash, whatever the timestamp; update(id, h, t) leaves an entry
\* with hash h; is_changed changes neither the cache nor its file.
C26_IsChangedByHash ==
    [][/\ call'.op = "is_changed" =>
            /\ call'.out = (\/ call'.id \notin DOMAIN hc.cache
                            \/ hc.cache[call'.id].hash # call'.hash)
            /\ hc' = hc
            /\ cacheFile' = cacheFile
       /\ call'.op = "update" =>
            /\ call'.id \in DOMAIN hc'.cache
            /\ hc'.cache[call'.id].hash = call'.hash]_vars

C26_Witness ==
    /\ call.op = "is_changed"
    /\ call.after = "update"
    /\ ~call.out
    /\ hc.cache[call.id].timestamp = MaxStamp

\* C27: constructing a HashCache on a file that is missing, unreadable or not
\* valid JSON raises nothing and gives an empty cache.
C27_BadFileIsEmptyCache ==
    (call.op = "construct" /\ cacheFile["r1"].kind # "json") =>
        hc.built /\ ~hc.raised /\ hc.cache = <<>>

\* C28: a HashCache constructed right after save() holds the map that was in
\* memory at the time of save: the same keys, hashes and timestamps.
C28_SaveLoadRoundTrip ==
    (call.op = "construct" /\ call.after = "save") =>
        hc.built /\ hc.cache = call.saved

C28_Witness ==
    /\ call.op = "construct"
    /\ call.after = "save"
    /\ DOMAIN hc.cache = CacheIds
    /\ \E i, j \in CacheIds : hc.cache[i].timestamp # hc.cache[j].timestamp

\* C29: whenever a name is not in the in-flight set, the store holds no Job
\* of that name with status running, also after a store call has failed in
\* the failure handler of run_scan.
C29_RunningJobsAreInFlight ==
    \A j \in get_running_jobs : jobs[j].codebase_name \in running_scans

\* C30: within a scan the Summarizer is called for a symbol exactly when its
\* identifier has no cache entry or an entry with another hash; the entry is
\* updated and symbols_processed incremented exactly when the call returns;
\* the Job's final symbols_processed is the number of calls that returned.
C30_SummarizeOnlyChanged ==
    /\ [][\A t \in TaskIds :
            LET me == tasks[t]
                now == tasks'[t]
                tree == src[me.path]
                Changed(x) ==
                    LET id == SymbolId(x[1], tree[x[1]].syms[x[2]])
                    IN  \/ id \notin DOMAIN now.cache
                        \/ now.cache[id].hash # compute_hash(tree[x[1]].syms[x[2]].code)
                Called(x) ==
                    now.pc = "log_processing" /\ x = <<CurEntry(now), now.si>>
            IN  /\ \A x \in now.visited \ me.visited : Called(x) <=> Changed(x)
                /\ now.llm_calls # me.llm_calls =>
                      /\ me.pc = "log_processing"
                      /\ now.pc = "summarize"
                      /\ now.llm_calls = me.llm_calls + 1
                /\ me.pc = "summarize" =>
                      LET id == SymbolId(CurEntry(me), CurSyms(me)[me.si]) IN
                      \/ /\ now.llm_ok = me.llm_ok + 1
                         /\ now.symbols_processed = me.symbols_processed + 1
                         /\ id \in DOMAIN now.cache
                         /\ now.cache[id].hash = compute_hash(CurSyms(me)[me.si].code)
                      \/ /\ now.llm_ok = me.llm_ok
                         /\ now.symbols_processed = me.symbols_processed
                         /\ now.cache = me.cache
                /\ (me.pc \notin {"summarize", "create_job"} /\ now.pc \notin Done) =>
                      /\ now.llm_ok = me.llm_ok
                      /\ now.symbols_processed = me.symbols_processed
                      /\ now.cache = me.cache]_vars
    /\ [](\A t \in TaskIds :
            (tasks[t].pc = "returned" /\ JobOf(t).status = COMPLETED) =>
                JobOf(t).symbols_processed = tasks[t].llm_ok)

\* a completed scan that summarized an edited symbol again and skipped an
\* unchanged one of the same file
C30_Witness ==
    \E t \in TaskIds :
        LET me == tasks[t] IN
        /\ me.pc = "returned"
        /\ JobOf(t).status = COMPLETED
        /\ JobOf(t).symbols_processed = 1
        /\ \E e \in SourceEntries(src[me.path]) :
              /\ {<<e, 1>>, <<e, 2>>} \subseteq me.visited
              /\ Logged(t, <<"Processing", <<e, 1>>>>, "info")
              /\ ~Logged(t, <<"Processing", <<e, 2>>>>, "info")

\* C31: once every scan and remove command has completed in a daemon that
\* was not asked to stop, and every persisted schedule is one Scheduler.add_job accepts, a trigger exists for
\* a name exactly when a codebases row holds that name.
C31_TriggersMatchRegistry ==
    (/\ conns = <<>>
     /\ daemon.running
     /\ \A row \in codebases : add_job_outcome(row.schedule) = "ok")
        => DOMAIN triggers = {row.name : row \in codebases}

\* C40: no two handlers run on the same path at the same time, and the
\* in-progress set holds a path exactly while a handler for it is running.
C40_OneHandlerPerPath ==
    /\ \A j, k \in Handling(wq) :
          wq.workers[j].item.path = wq.workers[k].item.path => j = k
    /\ wq.in_progress = {wq.workers[k].item.path : k \in Handling(wq)}

\* C32: the scan every run_once command answered ok=true created has, once
\* run_scan has ended, exactly one Job row of its own for the given path.
C32_RunOnceCreatesJob ==
    \A t \in TaskIds :
        (tasks[t].origin = "run_once" /\ tasks[t].pc \in Done) =>
            /\ tasks[t].job_id \in DOMAIN jobs
            /\ jobs[tasks[t].job_id].codebase_name = Basename(tasks[t].path)
            /\ \A u \in TaskIds : tasks[u].job_id = tasks[t].job_id => u = t

\* C33: when the scans of one root under two names have both finished and
\* no file raised in either, the persisted cache file holds an entry with the current hash for every
\* symbol either of them summarized.
C33_SharedCacheKeepsUpdates ==
    (\A t \in TaskIds : tasks[t].pc \in Done /\ tasks[t].files_raised = 0) =>
        \A t \in TaskIds :
            LET me == tasks[t]
                tree == src[me.path]
                saved == load(cacheFile, me.path)
            IN  \A x \in me.visited \ me.llm_failed :
                    Logged(t, <<"Processing", x>>, "info") =>
                        /\ SymbolId(x[1], tree[x[1]].syms[x[2]]) \in DOMAIN saved
                        /\ saved[SymbolId(x[1], tree[x[1]].syms[x[2]])].hash
                              = compute_hash(tree[x[1]].syms[x[2]].code)

\* C34: when the process dies while file k of a scan is being processed and
\* no earlier file of the scan raised, the persisted cache holds every cache
\* update the scan made for the files before k.
C34_CacheSurvivesDeath ==
    \A t \in TaskIds :
        LET me == tasks[t]
            tree == src[me.path]
            saved == load(cacheFile, me.path)
        IN  (me.pc = "killed" /\ me.files_raised = 0) =>
                \A x \in me.visited \ me.llm_failed :
                    (/\ \E i \in 1..(me.fi - 1) : me.source_files[i] = x[1]
                     /\ Logged(t, <<"Processing", x>>, "info")) =>
                        /\ SymbolId(x[1], tree[x[1]].syms[x[2]]) \in DOMAIN saved
                        /\ saved[SymbolId(x[1], tree[x[1]].syms[x[2]])].hash
                              = compute_hash(tree[x[1]].syms[x[2]].code)

\* C35: when the artifact write for a file raised, the persisted cache never
\* holds the entries this scan made for that file's symbols, so the next
\* scan finds those symbols changed.
C35_NoEntryWithoutArtifact ==
    \A t \in TaskIds :
        LET me == tasks[t]
            tree == src[me.path]
            saved == load(cacheFile, me.path)
        IN  \A x \in me.visited :
                (/\ HasJob(t)
                 /\ Logged(t, <<"Error processing", <<x[1], "write">>>>, "error")
                 /\ Logged(t, <<"Processing", x>>, "info")) =>
                    is_changed(saved, SymbolId(x[1], tree[x[1]].syms[x[2]]),
                               compute_hash(tree[x[1]].syms[x[2]].code))

\* C36: a scan that follows a scan which completed with every Summarizer call
\* succeeding and no file raising, the source unchanged, makes no Summarizer
\* call and, when it completes, has symbols_processed = 0.
C36_RescanIsIdempotent ==
    \A t, u \in TaskIds :
        (/\ t < u
         /\ tasks[t].pc = "returned"
         /\ JobOf(t).status = COMPLETED
         /\ tasks[t].llm_failed = {}
         /\ tasks[t].files_raised = 0) =>
            /\ tasks[u].llm_calls = 0
            /\ (HasJob(u) /\ JobOf(u).status = COMPLETED) =>
                  JobOf(u).symbols_processed = 0

\* C37: after a scan has completed with every Summarizer call succeeding
\* and no file raising, the artifact of each scanned file that has symbols
\* holds one fragment per symbol of the file, in symbol order, also when
\* only some of the symbols had changed since the scan before.
C37_ArtifactHoldsEverySymbol ==
    \A t \in TaskIds :
        LET me == tasks[t]
            tree == src[me.path]
        IN  (/\ me.pc = "returned"
             /\ JobOf(t).status = COMPLETED
             /\ me.llm_failed = {}
             /\ me.files_raised = 0) =>
                \A e \in SourceEntries(tree) :
                    tree[e].syms # <<>> =>
                        /\ e \in DOMAIN maps[me.path]
                        /\ maps[me.path][e] =
                              [i \in 1..Len(tree[e].syms) |-> tree[e].syms[i].name]

\* C38: the rows of a Job's log are in the order of the scan: the Job row is
\* created before any log row, 'Starting scan' comes first, 'Found' second,
\* the logs about symbols and files follow it in discovery order,
\* and the summary or failure log is the last and comes after the terminal
\* update of the Job; no log row belongs to a Job that has no row.
C38_StoreSeesScanOrder ==
    \A j \in DOMAIN logs :
        LET L == logs[j]
            Kind(i) == L[i].message[1]
            PerFile == {"Processing", "LLM error", "Error processing"}
        IN  /\ j \in DOMAIN jobs
            /\ \A i \in 1..Len(L) :
                  /\ Kind(i) = "Starting scan" => i = 1
                  /\ Kind(i) = "Found" => (i = 2 /\ Kind(1) = "Starting scan")
                  /\ Kind(i) \in PerFile => (i > 2 /\ Kind(2) = "Found")
                  /\ Kind(i) \in {"Completed", "Failed"} =>
                        (i = Len(L) /\ jobs[j].status \in Terminal)
            /\ \A i, k \in 1..Len(L) :
                  (i < k /\ Kind(i) \in PerFile /\ Kind(k) \in PerFile) =>
                      L[i].message[2][1] <= L[k].message[2][1]

\* C39: when the daemon is started again, Daemon.start completes and a
\* trigger exists for every persisted codebase, whatever schedule strings
\* the scan commands before persisted.
C39_RestartRestoresTriggers ==
    response.cmd = "serve" =>
        /\ response.ok
        /\ {row.name : row \in codebases} \subseteq DOMAIN triggers

====
